---- MODULE Spec2Model ----
(***************************************************************************)
(* Window lifecycle and commands, resize debouncing, throttling, theme     *)
(* synchronisation and log retention of the athena host process            *)
(* (src/main/service/*.ts, src/common/utils/*.ts, src/unnamed/part_007).   *)
(*                                                                         *)
(* Time is a discrete clock `now`.  The host runs one cooperative event    *)
(* loop: every action below is one run-to-completion turn of that loop.    *)
(* A timer whose deadline has been reached is run before any other event   *)
(* is handled and before the clock advances (timers are prompt), so a      *)
(* setTimeout(f, wait) callback runs exactly `wait` ticks after it was     *)
(* armed unless it is cleared first.                                       *)
(***************************************************************************)
EXTENDS Integers, Sequences, FiniteSets, TLC

----------------------------------------------------------------------------
(* Bounds of the model *)

\* the quiet window `wait` of a debounced function, in clock ticks
Wait == 2
\* the clock stops advancing here
MaxTime == 6
\* calls of the stand-alone debounced function
MaxCalls == 3
\* cancel() calls on the stand-alone debounced function
MaxCancels == 2
\* resize events per window
MaxResizes == 2
\* nativeTheme 'updated' emissions waiting in the event loop
MaxPending == 2
\* retention sweeps, the startup sweep included
MaxSweeps == 2
\* midnights passed since the host started
MaxRollovers == 1
\* exceptions injected into the awaits of one sweep
MaxFailures == 1
\* lines a day file holds before the host stops writing to it
MaxLines == 3
\* theme messages in flight between the host and the surfaces
MaxInFlight == 2
\* setThemeMode calls made by the surfaces
MaxSets == 2

\* the values a call's `this` and its argument range over
Contexts == {"ctxA", "ctxB"}
ArgVals == {"x", "y"}
NoCtx == "noctx"
NoArg == "noarg"

VARIABLES
    now,          \* the clock
    dInst,        \* debounce.ts: the closure state of one debounced function
    dImmediate,   \* debounce.ts: options.immediate of that function
    dHist,        \* observation of the calls made and of fn's executions
    wstate,          \* WindowService: lifecycle state of each surface
    resizeListener,  \* WindowService: 'resize' listener attached to the window
    closedListener,  \* WindowService: once('closed') listener attached
    updateWinStatus, \* WindowService: closure state of each window's debounced notifier
    wHist,           \* observation of each window's resize events and notifications
    themeSource,     \* nativeTheme.themeSource
    osDark,          \* whether the operating system is in dark mode
    _isDark,         \* ThemeService._isDark
    updatedPending,  \* nativeTheme 'updated' emissions posted and not yet handled
    themeRecv,       \* the last theme-mode-updated broadcast sent to each surface
    ipcInbox,        \* the replies and broadcasts in flight to each surface
    tHist,           \* observation of the theme requests, replies and broadcasts
    thInst,          \* throttle: the closure state of one throttled function
    thLeading,       \* throttle: options.leading of that function
    thTrailing,      \* throttle: options.trailing of that function
    thHist,          \* observation of the calls made and of fn's executions
    maximized,       \* BrowserWindow.isMaximized() of each window
    minimized,       \* BrowserWindow.isMinimized() of each window
    winReply,        \* the last is-window-maximized reply delivered to each surface
    cHist,           \* observation of the last window operation and its outcome
    today,           \* LogService: the calendar day of the wall clock
    logDir,          \* LogService: the log directory and the files in it
    sweep,           \* LogService: the position of _cleanupOldLogs between its awaits
    ipcLogChannels,  \* LogService: the log channels ipcMain has a listener for
    lastEntry,       \* LogService: the entry most recently appended to a day file
    lHist,           \* observation of the sweeps and of the forwarded messages
    useThemeMode,    \* part_001: themeMode and isDark of each surface's composable
    ipcCalls,        \* the ipcRenderer.invoke requests in flight from each surface
    uHist,           \* observation of the surfaces' theme requests and broadcasts
    useWinManager    \* part_000: isMaximized of each surface's composable, and its progress

debVars == <<dInst, dImmediate, dHist>>
winVars == <<wstate, resizeListener, closedListener, updateWinStatus, wHist>>
themeVars == <<themeSource, osDark, _isDark, updatedPending, themeRecv, ipcInbox,
               tHist>>
thrVars == <<thInst, thLeading, thTrailing, thHist>>
cmdVars == <<maximized, minimized, winReply, cHist>>
logVars == <<today, logDir, sweep, ipcLogChannels, lastEntry, lHist>>
surfVars == <<useThemeMode, ipcCalls, uHist>>
wmVars == <<useWinManager>>
vars == <<now, debVars, winVars, themeVars, thrVars, cmdVars, logVars, surfVars,
         wmVars>>

\* what the operations of one component leave alone
outsideDebounce == <<winVars, themeVars, thrVars, cmdVars, logVars, surfVars,
                     wmVars>>
outsideWindows == <<debVars, themeVars, thrVars, cmdVars, logVars, surfVars,
                    wmVars>>
outsideTheme == <<now, debVars, winVars, thrVars, cmdVars, logVars, surfVars,
                  wmVars>>
outsideThrottle == <<debVars, winVars, themeVars, cmdVars, logVars, surfVars,
                     wmVars>>
outsideCommands == <<now, debVars, themeVars, thrVars, logVars, surfVars,
                     wmVars>>
outsideLog == <<now, debVars, winVars, themeVars, thrVars, cmdVars, surfVars,
                wmVars>>

----------------------------------------------------------------------------
(* src/common/utils/debounce.ts *)

\* `let timeoutId = null`
NullId == 0

\* the handle setTimeout returns: one no live timer of this closure carries
FreshId(timers) ==
    CHOOSE i \in 1..(Cardinality(timers) + 1) : \A x \in timers : x.id # i

\* clearTimeout(id): the timer with that handle, if still armed, is dropped
clearTimeout(timers, id) == {x \in timers : x.id # id}

\* the closure state right after `debounce(fn, wait, options)` returns
debounce == [timeoutId |-> NullId, timers |-> {}]

\* `const callNow = !timeoutId`
callNow(dd) == dd.timeoutId = NullId

\* debounced without `if (timeoutId) clearTimeout(timeoutId)`
debounced_noClear(dd, imm, wait, t, ctx, args) ==
    LET id == FreshId(dd.timers)
    IN [timeoutId |-> id,
        timers |-> dd.timers \cup
            {[id |-> id, deadline |-> t + wait,
              ctx |-> IF imm THEN NoCtx ELSE ctx,
              args |-> IF imm THEN NoArg ELSE args]}]

\* one call `debounced.apply(ctx, [args])` at time t: the closure state after it
debounced(dd, imm, wait, t, ctx, args) ==
    LET cleared == IF dd.timeoutId # NullId
                     THEN clearTimeout(dd.timers, dd.timeoutId)
                     ELSE dd.timers
        id == FreshId(cleared)
        timer == IF imm
                   THEN [id |-> id, deadline |-> t + wait,
                         ctx |-> NoCtx, args |-> NoArg]
                   ELSE [id |-> id, deadline |-> t + wait,
                         ctx |-> ctx, args |-> args]
    IN [timeoutId |-> id, timers |-> cleared \cup {timer}]

\* whether that call runs fn synchronously (`if (callNow) fn.apply(...)`)
debouncedRunsFn(dd, imm) == imm /\ callNow(dd)

\* the setTimeout callback of timer x: the closure state after it
timerCallback(dd, imm, x) ==
    [timeoutId |-> IF imm THEN NullId ELSE dd.timeoutId,
     timers |-> dd.timers \ {x}]

\* a setTimeout callback that runs fn in both modes
timerRunsFn_bothModes(imm) == TRUE

\* whether the setTimeout callback runs fn (trailing mode only)
timerRunsFn(imm) == ~imm

\* cancel() that forgets the handle but leaves the timer armed
cancel_noClear(dd) == [dd EXCEPT !.timeoutId = NullId]

\* `debounced.cancel()`
cancel(dd) ==
    IF dd.timeoutId # NullId
      THEN [timeoutId |-> NullId, timers |-> clearTimeout(dd.timers, dd.timeoutId)]
      ELSE dd

\* a timer of the closure has reached its deadline
TimerDue(dd) == \E x \in dd.timers : x.deadline <= now

----------------------------------------------------------------------------
(* A stand-alone debounced function driven by arbitrary calls, cancels and  *)
(* the passing of time.  dHist observes it: it is written, never read, by   *)
(* the operations.                                                          *)

NoCall == [t |-> 0, ctx |-> NoCtx, args |-> NoArg]
NoRun == [t |-> 0, ctx |-> NoCtx, args |-> NoArg, sync |-> FALSE]

DebHistInit ==
    [calls |-> 0,              \* calls made so far
     lastCall |-> NoCall,      \* the most recent call
     runs |-> 0,               \* executions of fn so far
     timerRuns |-> 0,          \* ... of which from a setTimeout callback
     lastRun |-> NoRun,        \* the most recent execution of fn
     lastRunCall |-> NoCall,   \* the most recent call when fn last ran
     bursts |-> 0,             \* bursts begun so far
     burstRuns |-> 0,          \* executions of fn in the current burst
     prevBurstRuns |-> 0,      \* executions of fn in the burst before it
     cancels |-> 0,            \* cancel() calls so far
     cancelledSince |-> FALSE, \* cancel() was called after the last call
     cancelT |-> 0,            \* when
     runsWhileCancelled |-> 0, \* executions of fn between a cancel() and the next call
     lastCallFresh |-> FALSE,  \* the last call began a burst
     lastCallRan |-> FALSE,    \* the last call ran fn synchronously
     lastOp |-> "init",
     pre |-> debounce]         \* the closure state before the last operation

\* fn.apply(ctx, args) observed at time `now`
ObserveRun(h, ctx, args, sync) ==
    [h EXCEPT !.runs = @ + 1,
              !.timerRuns = IF sync THEN @ ELSE @ + 1,
              !.burstRuns = @ + 1,
              !.runsWhileCancelled = IF h.cancelledSince THEN @ + 1 ELSE @,
              !.lastRun = [t |-> now, ctx |-> ctx, args |-> args, sync |-> sync],
              !.lastRunCall = h.lastCall]

\* a call begins a burst when it is the first, when at least `wait` has passed
\* since the call before it, or when cancel() was called in between
BeginsBurst(h) ==
    h.calls = 0 \/ now - h.lastCall.t >= Wait \/ h.cancelledSince

ObserveCall(h, ctx, args, ran) ==
    LET fresh == BeginsBurst(h)
    IN [h EXCEPT !.calls = @ + 1,
                 !.lastCall = [t |-> now, ctx |-> ctx, args |-> args],
                 !.bursts = IF fresh THEN @ + 1 ELSE @,
                 !.prevBurstRuns = IF fresh THEN h.burstRuns ELSE @,
                 !.burstRuns = IF fresh THEN 0 ELSE @,
                 !.cancelledSince = FALSE,
                 !.lastCallFresh = fresh,
                 !.lastCallRan = ran,
                 !.lastOp = "call",
                 !.pre = dInst]

\* debounce.ts:44-67, one call of the debounced function
DebCall(ctx, args) ==
    /\ dHist.calls < MaxCalls
    /\ ~TimerDue(dInst)
    /\ dInst' = debounced(dInst, dImmediate, Wait, now, ctx, args)
    /\ LET ran == debouncedRunsFn(dInst, dImmediate)
           h1 == ObserveCall(dHist, ctx, args, ran)
       IN dHist' = IF ran THEN ObserveRun(h1, ctx, args, TRUE) ELSE h1
    /\ UNCHANGED <<now, dImmediate, outsideDebounce>>

\* debounce.ts:55-57 and 63-65, the setTimeout callback
DebTimerFire ==
    \E x \in dInst.timers :
        /\ x.deadline <= now
        /\ dInst' = timerCallback(dInst, dImmediate, x)
        /\ LET h1 == [dHist EXCEPT !.lastOp = "fire", !.pre = dInst]
           IN dHist' = IF timerRunsFn(dImmediate)
                         THEN ObserveRun(h1, x.ctx, x.args, FALSE)
                         ELSE h1
        /\ UNCHANGED <<now, dImmediate, outsideDebounce>>

\* debounce.ts:70-75
DebCancel ==
    /\ dHist.cancels < MaxCancels
    /\ ~TimerDue(dInst)
    /\ dInst' = cancel(dInst)
    /\ dHist' = [dHist EXCEPT !.cancels = @ + 1,
                              !.cancelledSince = (dHist.calls > 0),
                              !.cancelT = now,
                              !.lastOp = "cancel",
                              !.pre = dInst]
    /\ UNCHANGED <<now, dImmediate, outsideDebounce>>

\* the clock advances; a due timer runs first
DebTick ==
    /\ now < MaxTime
    /\ ~TimerDue(dInst)
    /\ now' = now + 1
    /\ dHist' = [dHist EXCEPT !.lastOp = "tick", !.pre = dInst]
    /\ UNCHANGED <<dInst, dImmediate, outsideDebounce>>

InitDeb ==
    /\ dInst = debounce
    /\ dImmediate \in BOOLEAN
    /\ dHist = DebHistInit

NextDebounce ==
    \/ \E ctx \in Contexts, args \in ArgVals : DebCall(ctx, args)
    \/ DebTimerFire
    \/ DebCancel
    \/ DebTick

----------------------------------------------------------------------------
(* Properties of debounce *)

\* C8: default (trailing) mode, no cancel(): fn never runs inside a call; each
\* execution happens exactly `wait` after the then most recent call, with that
\* call's context and arguments; while a burst is still going on fn has not run
\* for it, once `wait` has passed since its last call fn has run for it exactly
\* once, and every burst that was followed by another ran fn exactly once.
C8_TrailingOncePerBurst ==
    (~dImmediate /\ dHist.cancels = 0) =>
        /\ dHist.runs = dHist.timerRuns
        /\ ~dHist.lastCallRan
        /\ dHist.runs > 0 =>
              /\ ~dHist.lastRun.sync
              /\ dHist.lastRun.t = dHist.lastRunCall.t + Wait
              /\ dHist.lastRun.ctx = dHist.lastRunCall.ctx
              /\ dHist.lastRun.args = dHist.lastRunCall.args
        /\ dHist.burstRuns <= 1
        /\ (dHist.calls > 0 /\ now < dHist.lastCall.t + Wait) => dHist.burstRuns = 0
        /\ (dHist.calls > 0 /\ now > dHist.lastCall.t + Wait) => dHist.burstRuns = 1
        /\ dHist.bursts >= 2 => dHist.prevBurstRuns = 1

\* a burst of two calls with different arguments has run fn, and a second burst too
C8_Witness ==
    /\ ~dImmediate /\ dHist.cancels = 0
    /\ dHist.calls = 3 /\ dHist.bursts = 2 /\ dHist.runs = 2
    /\ dHist.prevBurstRuns = 1
    /\ dHist.lastRun.t = dHist.lastCall.t + Wait

\* C9: immediate mode: fn never runs from the timer; a call runs fn, synchronously
\* and with its own context and arguments, exactly when it begins a burst (first
\* call, `wait` without calls, or cancel() since the call before); every call
\* re-arms the quiet timer to `wait` after it.
C9_ImmediateLeadingOnly ==
    dImmediate =>
        /\ dHist.timerRuns = 0
        /\ dHist.runs = dHist.bursts
        /\ dHist.calls > 0 =>
              /\ dHist.lastCallRan = dHist.lastCallFresh
              /\ dHist.burstRuns = 1
              /\ dHist.lastRun.sync
              /\ dHist.lastRun.t = dHist.lastRunCall.t
              /\ dHist.lastRun.ctx = dHist.lastRunCall.ctx
              /\ dHist.lastRun.args = dHist.lastRunCall.args
        /\ (dHist.calls > 0 /\ ~dHist.cancelledSince /\ now < dHist.lastCall.t + Wait) =>
              /\ Cardinality(dInst.timers) = 1
              /\ \A x \in dInst.timers : x.deadline = dHist.lastCall.t + Wait

\* a burst of two calls ran fn once, its quiet timer has elapsed without running
\* fn, and the call after it ran fn again
C9_Witness ==
    /\ dImmediate /\ dHist.cancels = 0
    /\ dHist.calls = 3 /\ dHist.bursts = 2 /\ dHist.runs = 2
    /\ dHist.lastCallRan
    /\ dHist.lastCall.t >= Wait

\* what every later call and timer of a closure state depends on: the armed
\* timers, those the next call would clear, and whether the next call runs fn
Behaviour(dd) ==
    [armed |-> {<<x.deadline, x.ctx, x.args>> : x \in dd.timers},
     cleared |-> {<<x.deadline, x.ctx, x.args>> :
                     x \in {y \in dd.timers : y.id = dd.timeoutId}},
     leads |-> debouncedRunsFn(dd, dImmediate)]

\* C10: fn never runs between a cancel() and the next call, so a trailing burst
\* cancelled before its window elapsed never runs fn; cancel() with no timer
\* armed changes nothing later calls depend on; and after cancel() the function
\* is in the state of a freshly created one.
C10_CancelDiscardsPending ==
    /\ dHist.runsWhileCancelled = 0
    /\ (~dImmediate /\ dHist.cancelledSince /\ dHist.cancelT < dHist.lastCall.t + Wait)
          => dHist.burstRuns = 0
    /\ (dHist.lastOp = "cancel" /\ dHist.pre.timers = {})
          => Behaviour(dInst) = Behaviour(dHist.pre)
    /\ (dHist.lastOp = "cancel" \/ dHist.cancelledSince)
          => Behaviour(dInst) = Behaviour(debounce)

\* a trailing burst was cancelled inside its window, the window has long elapsed
\* and fn has not run for it
C10_Witness ==
    /\ ~dImmediate /\ dHist.cancelledSince
    /\ dHist.cancelT < dHist.lastCall.t + Wait
    /\ now > dHist.lastCall.t + Wait
    /\ dHist.burstRuns = 0 /\ dHist.runs = 0

----------------------------------------------------------------------------
(* src/main/service/WindowService.ts *)

\* the surfaces (WINDOW_NAMES); "none" is a surface not created yet
Windows == {"main", "setting"}

\* BrowserWindow.isDestroyed()
isDestroyed(w) == wstate[w] = "destroyed"

\* BrowserWindow.fromWebContents(e.sender): null once the window is closed
fromWebContents(w) == IF wstate[w] \in {"created", "live", "closing"} THEN w ELSE "null"

\* what a renderer could pass along with a command: the name of a surface, or
\* nothing (the preload bridge passes nothing)
Payloads == Windows \cup {"null"}

\* a handler that takes the surface named in the payload
commandTarget_byPayload(sender, payload) ==
    IF payload \in Windows THEN fromWebContents(payload) ELSE fromWebContents(sender)

\* the window a command acts on: `BrowserWindow.fromWebContents(e.sender)`; the
\* handlers take `e` only and never read the arguments after it
commandTarget(sender, payload) == fromWebContents(sender)

\* BrowserWindow.isMaximizable(): no option of SHARED_WINDOW_OPTIONS or of the
\* size passed to create() clears it, and nothing calls setMaximizable
isMaximizable(w) == TRUE

\* the debounced callback without its `!window?.isDestroyed()` guard
updateWinStatusSends_noGuard(w) == TRUE

\* the debounced callback `() => !window?.isDestroyed() && webContents.send(...)`:
\* whether it sends the maximize-window+"back" notification
updateWinStatusSends(w) == ~isDestroyed(w)

WinHistInit ==
    [resizes |-> 0,            \* resize events delivered to the listener
     lastResizeT |-> 0,        \* time of the most recent one
     lastResizeState |-> FALSE,\* isMaximizable() at that time
     bursts |-> 0,             \* bursts of resize events begun
     burstNotifs |-> 0,        \* notifications sent for the current burst
     prevBurstNotifs |-> 0,    \* ... for the burst before it
     notifs |-> 0,             \* notifications sent to the surface
     lastNotif |-> [t |-> 0, value |-> FALSE, resizeT |-> 0, resizeState |-> FALSE],
     sent |-> <<>>,            \* the values of the notifications sent, in order
     resizeOwed |-> FALSE,     \* maximize()/unmaximize() resized the window and
                               \* its 'resize' event has not been emitted yet
     sentDestroyed |-> FALSE,  \* a notification was sent while destroyed
     sentClose |-> FALSE,      \* the surface has sent a close-window command
     ranClosing |-> FALSE,     \* the callback ran after the surface entered closing
     ranDestroyed |-> FALSE]   \* the callback ran after the surface was destroyed

\* a timer of some window has reached its deadline
AnyTimerDue == \E w \in Windows : TimerDue(updateWinStatus[w])

\* a create() that starts loading without having registered the listeners
create_loadOnly(w) ==
    /\ wstate[w] = "none"
    /\ ~AnyTimerDue
    /\ wstate' = [wstate EXCEPT ![w] = "created"]
    /\ updateWinStatus' = [updateWinStatus EXCEPT ![w] = debounce]
    /\ UNCHANGED <<now, closedListener, resizeListener, wHist, outsideWindows>>

\* WindowService.create: new BrowserWindow, _setupWinLifecycle (the debounced
\* notifier, once('closed'), on('resize')), then _loadWindowTemplate
create(w) ==
    /\ wstate[w] = "none"
    /\ ~AnyTimerDue
    /\ wstate' = [wstate EXCEPT ![w] = "created"]
    /\ updateWinStatus' = [updateWinStatus EXCEPT ![w] = debounce]
    /\ closedListener' = [closedListener EXCEPT ![w] = TRUE]
    /\ resizeListener' = [resizeListener EXCEPT ![w] = TRUE]
    /\ UNCHANGED <<now, wHist, outsideWindows>>

\* the content loadURL/loadFile started has loaded: created -> live
didFinishLoad(w) ==
    /\ wstate[w] = "created"
    /\ ~AnyTimerDue
    /\ wstate' = [wstate EXCEPT ![w] = "live"]
    /\ UNCHANGED <<now, resizeListener, closedListener, updateWinStatus, wHist,
                   outsideWindows>>

\* close(target) that closes whatever state the window is in
close_reopens(target) ==
    IF target = "null"
      THEN UNCHANGED wstate
      ELSE wstate' = [wstate EXCEPT ![target] = "closing"]

\* WindowService.close(target): `if(!target) return; target.close()`
close(target) ==
    IF target = "null"
      THEN UNCHANGED wstate
      ELSE wstate' = [wstate EXCEPT ![target] =
                         IF @ \in {"created", "live"} THEN "closing" ELSE @]

\* ipcMain.on(CLOSE_WINDOW): the command sent by the renderer of surface w
handleCloseWindow(w, payload) ==
    /\ wstate[w] \in {"live", "closing", "destroyed"}
    /\ ~AnyTimerDue
    /\ close(commandTarget(w, payload))
    /\ wHist' = [wHist EXCEPT ![w].sentClose = TRUE]
    /\ UNCHANGED <<now, resizeListener, closedListener, updateWinStatus,
                   outsideWindows>>

\* the user closes the window through the OS: the same as BrowserWindow.close()
osClose(w) ==
    /\ wstate[w] \in {"created", "live"}
    /\ ~AnyTimerDue
    /\ close(w)
    /\ UNCHANGED <<now, resizeListener, closedListener, updateWinStatus, wHist,
                   outsideWindows>>

\* the OS has torn the window down: it is destroyed and 'closed' is emitted; the
\* once('closed') listener runs window.destroy() and removeListener('resize')
closed(w) ==
    /\ wstate[w] = "closing"
    /\ ~AnyTimerDue
    /\ wstate' = [wstate EXCEPT ![w] = "destroyed"]
    /\ IF closedListener[w]
         THEN /\ resizeListener' = [resizeListener EXCEPT ![w] = FALSE]
              /\ closedListener' = [closedListener EXCEPT ![w] = FALSE]
         ELSE UNCHANGED <<resizeListener, closedListener>>
    /\ UNCHANGED <<now, updateWinStatus, wHist, outsideWindows>>

\* a resize listener whose debounce timer is shared by all the surfaces: the
\* event of one surface clears the timer armed for another
resize_sharedTimer(w) ==
    /\ wstate[w] \in {"created", "live", "closing"}
    /\ wHist[w].resizes < MaxResizes
    /\ ~AnyTimerDue
    /\ resizeListener[w]
    /\ updateWinStatus' = [v \in Windows |->
          IF v = w THEN debounced(updateWinStatus[v], FALSE, Wait, now, w, NoArg)
                   ELSE cancel(updateWinStatus[v])]
    /\ wHist' = [wHist EXCEPT ![w].resizes = @ + 1, ![w].lastResizeT = now]
    /\ UNCHANGED <<now, wstate, resizeListener, closedListener, outsideWindows>>

\* a 'resize' event of window w: window.on('resize', updateWinStatus)
resize(w) ==
    /\ wstate[w] \in {"created", "live", "closing"}
    /\ wHist[w].resizes < MaxResizes
    /\ ~AnyTimerDue
    /\ resizeListener[w]
    /\ updateWinStatus' = [updateWinStatus EXCEPT ![w] =
                              debounced(@, FALSE, Wait, now, w, NoArg)]
    /\ LET h == wHist[w]
           fresh == h.resizes = 0 \/ now - h.lastResizeT >= Wait
       IN wHist' = [wHist EXCEPT ![w] =
             [h EXCEPT !.resizes = @ + 1,
                       !.lastResizeT = now,
                       !.lastResizeState = isMaximizable(w),
                       !.resizeOwed = FALSE,
                       !.bursts = IF fresh THEN @ + 1 ELSE @,
                       !.prevBurstNotifs = IF fresh THEN h.burstNotifs ELSE @,
                       !.burstNotifs = IF fresh THEN 0 ELSE @]]
    /\ UNCHANGED <<now, wstate, resizeListener, closedListener, outsideWindows>>

\* the setTimeout callback armed by updateWinStatus runs the notifier
updateWinStatusTimer(w) ==
    \E x \in updateWinStatus[w].timers :
        /\ x.deadline <= now
        /\ updateWinStatus' = [updateWinStatus EXCEPT ![w] = timerCallback(@, FALSE, x)]
        /\ LET h == wHist[w]
               sends == timerRunsFn(FALSE) /\ updateWinStatusSends(w)
               h1 == [h EXCEPT !.ranClosing = @ \/ wstate[w] \in {"closing", "destroyed"},
                               !.ranDestroyed = @ \/ isDestroyed(w)]
           IN wHist' = [wHist EXCEPT ![w] =
                 IF sends
                   THEN [h1 EXCEPT !.notifs = @ + 1,
                                   !.burstNotifs = @ + 1,
                                   !.sentDestroyed = @ \/ isDestroyed(w),
                                   !.sent = Append(@, isMaximizable(w)),
                                   !.lastNotif = [t |-> now,
                                                  value |-> isMaximizable(w),
                                                  resizeT |-> h.lastResizeT,
                                                  resizeState |-> h.lastResizeState]]
                   ELSE h1]
        /\ UNCHANGED <<now, wstate, resizeListener, closedListener, outsideWindows>>

\* the clock advances; due timers run first
WinTick ==
    /\ now < MaxTime
    /\ ~AnyTimerDue
    /\ now' = now + 1
    /\ UNCHANGED <<winVars, outsideWindows>>

InitWin ==
    /\ wstate = [w \in Windows |-> "none"]
    /\ resizeListener = [w \in Windows |-> FALSE]
    /\ closedListener = [w \in Windows |-> FALSE]
    /\ updateWinStatus = [w \in Windows |-> debounce]
    /\ wHist = [w \in Windows |-> WinHistInit]

NextWindows ==
    \/ \E w \in Windows : create(w)
    \/ \E w \in Windows : didFinishLoad(w)
    \/ \E w \in Windows, payload \in Payloads : handleCloseWindow(w, payload)
    \/ \E w \in Windows : osClose(w)
    \/ \E w \in Windows : closed(w)
    \/ \E w \in Windows : resize(w)
    \/ \E w \in Windows : updateWinStatusTimer(w)
    \/ WinTick

----------------------------------------------------------------------------
(* src/main/service/ThemeService.ts *)

ThemeModes == {"dark", "light", "system"}

\* nativeTheme.shouldUseDarkColors under a themeSource and an OS setting
shouldUseDarkColors(source, os) ==
    CASE source = "dark" -> TRUE
      [] source = "light" -> FALSE
      [] source = "system" -> os

\* BrowserWindow.getAllWindows() that still lists closed windows
getAllWindows_withDestroyed == {w \in Windows : wstate[w] # "none"}

\* BrowserWindow.getAllWindows(): the windows opened and not yet closed
getAllWindows == {w \in Windows : wstate[w] \in {"created", "live", "closing"}}

\* a SET_THEME_MODE handler answering from the cached flag
setThemeModeReply_cached(mode) == _isDark

\* the SET_THEME_MODE handler's return value, read after themeSource = mode
setThemeModeReply(mode) == shouldUseDarkColors(mode, osDark)

\* the IS_DARK_THEME handler's return value
handleIsDarkTheme == shouldUseDarkColors(themeSource, osDark)

\* the GET_THEME_MODE handler's return value
handleGetThemeMode == themeSource

\* `public get isDark()`
isDark == _isDark

\* `public get themeMode()`
themeMode == themeSource

\* an 'updated' handler that broadcasts the flag without refreshing it
updatedIsDark_stale == _isDark

\* the 'updated' handler's `this._isDark = nativeTheme.shouldUseDarkColors`
updatedIsDark == shouldUseDarkColors(themeSource, osDark)

\* `win.webContents.send(IPC_EVENTS.THEME_MODE_UPDATED, this._isDark)`: the
\* message on its way to a surface
ThemeModeUpdated(dark) ==
    [kind |-> "event", ch |-> "theme-mode-updated", cont |-> "none",
     cap |-> FALSE, dark |-> dark, mode |-> "dark"]

\* no surface has a theme-mode-updated listener
Subscribers_none == {}

\* the windows whose renderer has subscribed to theme-mode-updated
Subscribers == {w \in getAllWindows : useThemeMode[w].mounted}

\* the theme messages in flight: requests of the surfaces, replies and
\* broadcasts of the host
RECURSIVE InFlightOf(_)
InFlightOf(ws) ==
    IF ws = {}
      THEN 0
      ELSE LET w == CHOOSE x \in ws : TRUE
           IN Len(ipcCalls[w]) + Len(ipcInbox[w]) + InFlightOf(ws \ {w})

InFlight == InFlightOf(Windows)

NoReply == [asked |-> FALSE, value |-> FALSE]
NoMode == [asked |-> FALSE, value |-> "dark"]

ThemeHistInit ==
    [\* the last set-theme-mode request: its mode and its reply
     lastSet |-> [valid |-> FALSE, mode |-> "dark", reply |-> FALSE],
     osSinceSet |-> FALSE,      \* the OS setting changed after that request
     isDarkAfterSet |-> NoReply,\* the reply of the last is-dark-theme request after it
     modeAfterSet |-> NoMode,   \* the reply of the last get-theme-mode request after it
     bcastTo |-> {},            \* the surfaces the last broadcast was sent to
     bcastDestroyed |-> {}]     \* the surfaces that were destroyed at that time

\* the renderer of surface w can send requests once its page is loaded
HasRenderer(w) == wstate[w] \in {"live", "closing"}

\* ipcMain.handle(SET_THEME_MODE): themeSource = mode, reply shouldUseDarkColors;
\* nativeTheme posts an 'updated' emission when that changed shouldUseDarkColors
handleSetThemeMode(w, mode) ==
    /\ HasRenderer(w)
    /\ LET before == shouldUseDarkColors(themeSource, osDark)
           after == shouldUseDarkColors(mode, osDark)
       IN /\ (after # before) => updatedPending < MaxPending
          /\ themeSource' = mode
          /\ updatedPending' = IF after # before THEN updatedPending + 1
                                                 ELSE updatedPending
          /\ tHist' = [tHist EXCEPT
                !.lastSet = [valid |-> TRUE, mode |-> mode,
                             reply |-> setThemeModeReply(mode)],
                !.osSinceSet = FALSE,
                !.isDarkAfterSet = NoReply,
                !.modeAfterSet = NoMode]
    /\ UNCHANGED <<osDark, _isDark, themeRecv, ipcInbox, outsideTheme>>

\* ipcMain.handle(GET_THEME_MODE)
getThemeModeRequest(w) ==
    /\ HasRenderer(w)
    /\ tHist' = [tHist EXCEPT
          !.modeAfterSet = [asked |-> TRUE, value |-> handleGetThemeMode]]
    /\ UNCHANGED <<themeSource, osDark, _isDark, updatedPending, themeRecv,
                   ipcInbox, outsideTheme>>

\* ipcMain.handle(IS_DARK_THEME)
isDarkThemeRequest(w) ==
    /\ HasRenderer(w)
    /\ tHist' = [tHist EXCEPT
          !.isDarkAfterSet = [asked |-> TRUE, value |-> handleIsDarkTheme]]
    /\ UNCHANGED <<themeSource, osDark, _isDark, updatedPending, themeRecv,
                   ipcInbox, outsideTheme>>

\* the user switches the operating system between light and dark: nativeTheme
\* posts an 'updated' emission when shouldUseDarkColors changed, and may post
\* one when an overriding themeSource hides the change
osThemeChange(emits) ==
    /\ updatedPending < MaxPending
    /\ (themeSource = "system") => emits
    /\ osDark' = ~osDark
    /\ updatedPending' = IF emits THEN updatedPending + 1 ELSE updatedPending
    /\ tHist' = [tHist EXCEPT !.osSinceSet = TRUE]
    /\ UNCHANGED <<themeSource, _isDark, themeRecv, ipcInbox, outsideTheme>>

\* nativeTheme.on('updated'): refresh _isDark and send it to every window; the
\* message travels to the window's renderer, which drops it when nothing there
\* has subscribed to the channel
nativeThemeUpdated ==
    /\ updatedPending > 0
    /\ InFlight + Cardinality(Subscribers) <= MaxInFlight
    /\ updatedPending' = updatedPending - 1
    /\ _isDark' = updatedIsDark
    /\ themeRecv' = [w \in Windows |->
                        IF w \in getAllWindows
                          THEN [got |-> TRUE, isDark |-> _isDark']
                          ELSE themeRecv[w]]
    /\ ipcInbox' = [w \in Windows |->
                        IF w \in Subscribers
                          THEN Append(ipcInbox[w], ThemeModeUpdated(_isDark'))
                          ELSE ipcInbox[w]]
    /\ tHist' = [tHist EXCEPT
          !.bcastTo = getAllWindows,
          !.bcastDestroyed = {w \in Windows : wstate[w] = "destroyed"}]
    /\ UNCHANGED <<themeSource, osDark, outsideTheme>>

\* the constructor: themeSource = 'dark', _isDark = shouldUseDarkColors
InitTheme ==
    /\ themeSource = "dark"
    /\ osDark \in BOOLEAN
    /\ _isDark = shouldUseDarkColors("dark", osDark)
    /\ updatedPending = 0
    /\ themeRecv = [w \in Windows |-> [got |-> FALSE, isDark |-> FALSE]]
    /\ ipcInbox = [w \in Windows |-> <<>>]
    /\ tHist = ThemeHistInit

NextTheme ==
    \/ \E w \in Windows : create(w)
    \/ \E w \in Windows : didFinishLoad(w)
    \/ \E w \in Windows, payload \in Payloads : handleCloseWindow(w, payload)
    \/ \E w \in Windows : osClose(w)
    \/ \E w \in Windows : closed(w)
    \/ \E w \in Windows, mode \in ThemeModes : handleSetThemeMode(w, mode)
    \/ \E w \in Windows : getThemeModeRequest(w)
    \/ \E w \in Windows : isDarkThemeRequest(w)
    \/ \E emits \in BOOLEAN : osThemeChange(emits)
    \/ nativeThemeUpdated

----------------------------------------------------------------------------
(* src/unnamed/part_001: useThemeMode in the renderer of each surface, and  *)
(* the messages between it and the host (src/preload.ts).  The requests of  *)
(* one surface reach the host in the order sent; of the messages on their   *)
(* way to a surface the replies arrive in the order sent and so do the      *)
(* broadcasts, while a broadcast and a reply may arrive in either order.    *)

\* `ref<ThemeMode>('dark')` and `ref<boolean>(false)`, before onMounted has run
useThemeModeInit == [mounted |-> FALSE, themeMode |-> "dark", isDark |-> FALSE]

\* ipcRenderer.invoke(ch, mode): a request on its way to the host, with the
\* continuation of the surface that waits for its reply ("then" of line 29,
\* "await" of lines 40-41, "updated" of the listener of lines 32-39, which has
\* captured the broadcast's _isDark; nothing waits for set-theme-mode)
invoke(ch, cont, mode, cap) ==
    [kind |-> "request", ch |-> ch, cont |-> cont, cap |-> cap,
     dark |-> FALSE, mode |-> mode]

\* the reply ipcMain.handle sends back: what the handler of the request's
\* channel returns (ThemeService.ts:57-82)
ipcMainReply(c) ==
    [c EXCEPT !.kind = "reply",
              !.dark = IF c.ch = "set-theme-mode" THEN setThemeModeReply(c.mode)
                       ELSE IF c.ch = "is-dark-theme" THEN handleIsDarkTheme ELSE @,
              !.mode = IF c.ch = "get-theme-mode" THEN handleGetThemeMode ELSE @]

\* the position in a surface's inbox of the first message of that kind, 0 when
\* there is none
FirstOf(inbox, kind) ==
    IF \E i \in 1..Len(inbox) : inbox[i].kind = kind
      THEN CHOOSE i \in 1..Len(inbox) :
              inbox[i].kind = kind /\ \A j \in 1..(i - 1) : inbox[j].kind # kind
      ELSE 0

\* the inbox without its i-th message
Without(inbox, i) == SubSeq(inbox, 1, i - 1) \o SubSeq(inbox, i + 1, Len(inbox))

\* how many messages of that kind a sequence holds
CountOf(seq, kind) == Cardinality({i \in 1..Len(seq) : seq[i].kind = kind})

\* what is observed of a set-theme-mode request of a mounted surface that
\* changed the resolved isDark while no emission was pending and no message
\* was on its way to the surface
NoTrack ==
    [on |-> FALSE,          \* the broadcast it triggered has not arrived yet
     reply |-> FALSE,       \* the isDark of the request's reply
     gotReply |-> FALSE]    \* the reply has arrived

SurfHistInit ==
    [sets |-> 0,                 \* set-theme-mode requests sent so far
     \* the surfaces that were mounted when the last of them was handled
     setSinceMount |-> {},
     track |-> [w \in Windows |-> NoTrack]]

\* the surfaces whose renderer mounts the composable; the renderer of another
\* surface calls window.api itself
Composables == {"main"}

outsideSurfaces == <<now, debVars, winVars, thrVars, cmdVars, logVars,
                    wmVars>>

\* part_001:28-42, onMounted up to its first await: is-dark-theme is requested
\* (line 29), the theme-mode-updated listener is registered (32-39) and
\* is-dark-theme is requested again (40)
onMounted(w) ==
    /\ wstate[w] = "live"
    /\ ~useThemeMode[w].mounted
    /\ InFlight + 2 <= MaxInFlight
    /\ useThemeMode' = [useThemeMode EXCEPT ![w].mounted = TRUE]
    /\ ipcCalls' = [ipcCalls EXCEPT ![w] =
          @ \o <<invoke("is-dark-theme", "then", "dark", FALSE),
                 invoke("is-dark-theme", "await", "dark", FALSE)>>]
    /\ uHist' = [uHist EXCEPT !.setSinceMount = @ \ {w}]
    /\ UNCHANGED <<themeVars, outsideSurfaces>>

\* part_001:14-18, setThemeMode(mode): `themeMode.value = mode`, then
\* window.api.setThemeMode(mode), whose result nothing waits for
setThemeMode(w, mode) ==
    /\ wstate[w] = "live"
    /\ useThemeMode[w].mounted
    /\ uHist.sets < MaxSets
    /\ InFlight < MaxInFlight
    /\ useThemeMode' = [useThemeMode EXCEPT ![w].themeMode = mode]
    /\ ipcCalls' = [ipcCalls EXCEPT ![w] =
          Append(@, invoke("set-theme-mode", "none", mode, FALSE))]
    /\ uHist' = [uHist EXCEPT !.sets = @ + 1]
    /\ UNCHANGED <<themeVars, outsideSurfaces>>

\* preload.ts:22, window.api.setThemeMode(mode) called by the renderer of a
\* surface itself
apiSetThemeMode(w, mode) ==
    /\ wstate[w] = "live"
    /\ uHist.sets < MaxSets
    /\ InFlight < MaxInFlight
    /\ ipcCalls' = [ipcCalls EXCEPT ![w] =
          Append(@, invoke("set-theme-mode", "none", mode, FALSE))]
    /\ uHist' = [uHist EXCEPT !.sets = @ + 1]
    /\ UNCHANGED <<themeVars, useThemeMode, outsideSurfaces>>

\* ipcMain.handle: the host takes the next request of surface w, runs the
\* handler of its channel and sends the reply; SET_THEME_MODE assigns
\* themeSource, and nativeTheme posts an 'updated' emission when that changed
\* shouldUseDarkColors
ipcMainHandle(w) ==
    /\ ipcCalls[w] # <<>>
    /\ LET c == Head(ipcCalls[w])
           isSet == c.ch = "set-theme-mode"
           before == shouldUseDarkColors(themeSource, osDark)
           after == shouldUseDarkColors(c.mode, osDark)
           emits == isSet /\ after # before
           re == ipcMainReply(c)
           tr == uHist.track[w]
       IN /\ emits => updatedPending < MaxPending
          /\ themeSource' = IF isSet THEN c.mode ELSE themeSource
          /\ updatedPending' = IF emits THEN updatedPending + 1 ELSE updatedPending
          /\ ipcCalls' = [ipcCalls EXCEPT ![w] = Tail(@)]
          /\ ipcInbox' = [ipcInbox EXCEPT ![w] = Append(@, re)]
          /\ uHist' =
               [uHist EXCEPT
                  !.setSinceMount =
                      IF isSet THEN {v \in Windows : useThemeMode[v].mounted} ELSE @,
                  !.track[w] =
                      IF /\ emits /\ useThemeMode[w].mounted /\ ~tr.on
                         /\ updatedPending = 0 /\ ipcInbox[w] = <<>>
                        THEN [on |-> TRUE, reply |-> re.dark, gotReply |-> FALSE]
                        ELSE @]
    /\ UNCHANGED <<osDark, _isDark, themeRecv, tHist, useThemeMode, outsideSurfaces>>

\* the first reply on its way to surface w arrives and its continuation runs:
\* `isDark.value = res` (29-31); `isDark.value = await ...` followed by the
\* get-theme-mode request of line 41; `themeMode.value = await ...`; or the
\* listener's `isDark.value = _isDark; if (res !== themeMode.value)
\* themeMode.value = res` (34-38)
ipcReplyArrives(w) ==
    LET i == FirstOf(ipcInbox[w], "reply")
    IN /\ i > 0
       /\ LET re == ipcInbox[w][i]
              u == useThemeMode[w]
              tr == uHist.track[w]
              asksMode == re.ch = "is-dark-theme" /\ re.cont = "await"
          IN /\ ipcInbox' = [ipcInbox EXCEPT ![w] = Without(@, i)]
             /\ useThemeMode' = [useThemeMode EXCEPT ![w] =
                   CASE re.ch = "is-dark-theme" -> [u EXCEPT !.isDark = re.dark]
                     [] re.ch = "get-theme-mode" /\ re.cont = "await" ->
                          [u EXCEPT !.themeMode = re.mode]
                     [] re.ch = "get-theme-mode" /\ re.cont = "updated" ->
                          [u EXCEPT !.isDark = re.cap, !.themeMode = re.mode]
                     [] OTHER -> u]
             /\ ipcCalls' = IF asksMode
                              THEN [ipcCalls EXCEPT ![w] =
                                      Append(@, invoke("get-theme-mode", "await",
                                                       "dark", FALSE))]
                              ELSE ipcCalls
             /\ uHist' = IF tr.on /\ re.ch = "set-theme-mode"
                           THEN [uHist EXCEPT !.track[w].gotReply = TRUE]
                           ELSE uHist
       /\ UNCHANGED <<themeSource, osDark, _isDark, updatedPending, themeRecv, tHist,
                      outsideSurfaces>>

\* the first theme-mode-updated broadcast on its way to surface w arrives: the
\* listener requests get-theme-mode, keeping the broadcast's _isDark (32)
themeModeUpdatedArrives(w) ==
    LET i == FirstOf(ipcInbox[w], "event")
    IN /\ i > 0
       /\ LET ev == ipcInbox[w][i]
              tr == uHist.track[w]
          IN /\ ipcInbox' = [ipcInbox EXCEPT ![w] = Without(@, i)]
             /\ ipcCalls' = [ipcCalls EXCEPT ![w] =
                   Append(@, invoke("get-theme-mode", "updated", "dark", ev.dark))]
             /\ uHist' = [uHist EXCEPT !.track[w] = NoTrack]
       /\ UNCHANGED <<themeSource, osDark, _isDark, updatedPending, themeRecv, tHist,
                      useThemeMode, outsideSurfaces>>

InitSurf ==
    /\ useThemeMode = [w \in Windows |-> useThemeModeInit]
    /\ ipcCalls = [w \in Windows |-> <<>>]
    /\ uHist = SurfHistInit

\* the surfaces open, the composable mounts and sets the theme, the renderers
\* set it themselves, and the OS setting changes
NextSurfaces ==
    \/ \E w \in Windows : create(w)
    \/ \E w \in Windows : didFinishLoad(w)
    \/ \E w \in Composables : onMounted(w)
    \/ \E w \in Windows, mode \in ThemeModes : setThemeMode(w, mode)
    \/ \E w \in Windows \ Composables, mode \in ThemeModes : apiSetThemeMode(w, mode)
    \/ \E w \in Windows : ipcMainHandle(w)
    \/ \E w \in Windows : ipcReplyArrives(w)
    \/ \E w \in Windows : themeModeUpdatedArrives(w)
    \/ \E emits \in BOOLEAN : osThemeChange(emits)
    \/ nativeThemeUpdated

----------------------------------------------------------------------------
(* src/main/service/WindowService.ts: the window commands, the             *)
(* is-window-maximized request and close(handle) called by host code       *)

\* `target?.close()` on a BrowserWindow that is already destroyed: Electron
\* raises "TypeError: Object has been destroyed"; a null target returns early
closeThrows(target) == target # "null" /\ isDestroyed(target)

\* the handler of IS_WINDOW_MAXIMIZED:
\* `BrowserWindow.fromWebContents(e.sender)?.isMaximized() ?? false`
handleIsWindowMaximized(w) ==
    IF fromWebContents(w) = "null" THEN FALSE ELSE maximized[fromWebContents(w)]

\* a reply that reaches the surface whatever state it is in
replyDelivered_always(w) == TRUE

\* the value an ipcMain.handle handler returns is sent back to the frame that
\* asked: it is delivered only while that frame still exists
replyDelivered(w) == wstate[w] \in {"live", "closing"}

NoWinReply == [got |-> FALSE, value |-> FALSE]

CmdHistInit ==
    [op |-> "init",        \* the last operation among close(handle), minimize,
                           \* maximize and is-window-maximized
     who |-> "null",       \* the handle it was given, or the surface that sent it
     pre |-> "null",       \* the lifecycle state of that surface before it
     threw |-> FALSE,      \* it raised an error
     value |-> FALSE,      \* the value the request handler returned
     delivered |-> FALSE]  \* that value reached the surface

\* the lifecycle state behind a handle
StateOf(h) == IF h = "null" THEN "null" ELSE wstate[h]

\* host code calls windowManager.close(handle) with null or with a handle that
\* create() returned
closeHandle(h) ==
    /\ h \in Windows => wstate[h] # "none"
    /\ ~AnyTimerDue
    /\ close(h)
    /\ cHist' = [op |-> "close", who |-> h, pre |-> StateOf(h),
                 threw |-> closeThrows(h), value |-> FALSE, delivered |-> FALSE]
    /\ UNCHANGED <<resizeListener, closedListener, updateWinStatus, wHist,
                   maximized, minimized, winReply, outsideCommands>>

\* ipcMain.on(MINIMIZE_WINDOW): `fromWebContents(e.sender)?.minimize()`
handleMinimizeWindow(w, payload) ==
    /\ wstate[w] \in {"live", "closing", "destroyed"}
    /\ ~AnyTimerDue
    /\ LET target == commandTarget(w, payload)
       IN minimized' = IF target = "null"
                         THEN minimized
                         ELSE [minimized EXCEPT ![target] = TRUE]
    /\ cHist' = [op |-> "minimize-window", who |-> w, pre |-> wstate[w],
                 threw |-> FALSE, value |-> FALSE, delivered |-> FALSE]
    /\ UNCHANGED <<winVars, maximized, winReply, outsideCommands>>

\* ipcMain.on(MAXIMIZE_WINDOW): toggleMax(fromWebContents(e.sender)):
\* `if(!target) return; target.isMaximized() ? target.unmaximize() : target.maximize()`;
\* maximize() also shows a minimized window; either call changes the size of
\* the window, for which the window emits a 'resize' event afterwards
handleIsMaximzeWindow(w, payload) ==
    /\ wstate[w] \in {"live", "closing", "destroyed"}
    /\ ~AnyTimerDue
    /\ LET target == commandTarget(w, payload)
       IN IF target = "null"
            THEN UNCHANGED <<maximized, minimized>>
            ELSE IF maximized[target]
              THEN /\ maximized' = [maximized EXCEPT ![target] = FALSE]
                   /\ UNCHANGED minimized
              ELSE /\ maximized' = [maximized EXCEPT ![target] = TRUE]
                   /\ minimized' = [minimized EXCEPT ![target] = FALSE]
    /\ wHist' = IF commandTarget(w, payload) = "null"
                  THEN wHist
                  ELSE [wHist EXCEPT ![commandTarget(w, payload)].resizeOwed = TRUE]
    /\ cHist' = [op |-> "maximize-window", who |-> w, pre |-> wstate[w],
                 threw |-> FALSE, value |-> FALSE, delivered |-> FALSE]
    /\ UNCHANGED <<wstate, resizeListener, closedListener, updateWinStatus,
                   winReply, outsideCommands>>

\* ipcMain.handle(IS_WINDOW_MAXIMIZED): a request sent by the renderer of
\* surface w is handled, and the returned value is sent back to it
isWindowMaximizedRequest(w) ==
    /\ wstate[w] \in {"live", "closing", "destroyed"}
    /\ ~AnyTimerDue
    /\ winReply' = IF replyDelivered(w)
                     THEN [winReply EXCEPT ![w] =
                              [got |-> TRUE, value |-> handleIsWindowMaximized(w)]]
                     ELSE winReply
    /\ cHist' = [op |-> "is-window-maximized", who |-> w, pre |-> wstate[w],
                 threw |-> FALSE, value |-> handleIsWindowMaximized(w),
                 delivered |-> replyDelivered(w)]
    /\ UNCHANGED <<winVars, maximized, minimized, outsideCommands>>

\* the user restores a minimized window through the OS
osRestore(w) ==
    /\ wstate[w] \in {"created", "live", "closing"}
    /\ minimized[w]
    /\ ~AnyTimerDue
    /\ minimized' = [minimized EXCEPT ![w] = FALSE]
    /\ UNCHANGED <<winVars, maximized, winReply, cHist, outsideCommands>>

\* a new BrowserWindow is neither maximized nor minimized
InitCmd ==
    /\ maximized = [w \in Windows |-> FALSE]
    /\ minimized = [w \in Windows |-> FALSE]
    /\ winReply = [w \in Windows |-> NoWinReply]
    /\ cHist = CmdHistInit

NextCommands ==
    \/ \E w \in Windows : create(w)
    \/ \E w \in Windows : didFinishLoad(w)
    \/ \E w \in Windows, payload \in Payloads : handleCloseWindow(w, payload)
    \/ \E w \in Windows, payload \in Payloads : handleMinimizeWindow(w, payload)
    \/ \E w \in Windows, payload \in Payloads : handleIsMaximzeWindow(w, payload)
    \/ \E w \in Windows : isWindowMaximizedRequest(w)
    \/ \E h \in Windows \cup {"null"} : closeHandle(h)
    \/ \E w \in Windows : osClose(w)
    \/ \E w \in Windows : osRestore(w)
    \/ \E w \in Windows : closed(w)

----------------------------------------------------------------------------
(* src/unnamed/part_000 (useWinManager) and src/preload.ts:13-19: the      *)
(* title bar of a surface, which asks its window's maximized state once    *)
(* and then follows the maximize-window+"back" notifications               *)

\* part_000:7, `const isMaximized = ref(false)`. pc is the position of
\* onMounted (34-41): not started, waiting for the reply of line 38, or past
\* the registration of line 40. seen counts the notifications that have
\* reached the renderer
useWinManagerInit == [pc |-> "unmounted", isMaximized |-> FALSE, seen |-> 0]

\* the surfaces whose title bar is followed; every window is maximized,
\* restored and resized, and the title bar of another surface would differ
\* from this one in its name alone
TitleBars == {"main"}

outsideWinManager == <<now, debVars, winVars, themeVars, thrVars, cmdVars, logVars,
                       surfVars>>

\* the notifications sent to surface w that have not reached its renderer
notificationsInFlight(w) == Len(wHist[w].sent) - useWinManager[w].seen

\* part_000:34-38, onMounted up to the await of window.api.isWindowMaximized()
\* (preload.ts:19, ipcRenderer.invoke): the request is on its way
useWinManagerMounted(w) ==
    /\ wstate[w] = "live"
    /\ useWinManager[w].pc = "unmounted"
    /\ useWinManager' = [useWinManager EXCEPT ![w].pc = "asked"]
    /\ UNCHANGED outsideWinManager

\* the host handles the request the composable of surface w is waiting on
isWindowMaximizedInvoked(w) ==
    /\ useWinManager[w].pc = "asked"
    /\ ~winReply[w].got
    /\ isWindowMaximizedRequest(w)

\* part_000:38-40, the reply reaches the renderer and onMounted resumes:
\* `isMaximized.value = await ...`, then window.api.onWindowMaximized
\* registers the listener of maximize-window+"back" (preload.ts:16-17)
isWindowMaximizedReplied(w) ==
    /\ wstate[w] \in {"live", "closing"}
    /\ useWinManager[w].pc = "asked"
    /\ winReply[w].got
    /\ useWinManager' = [useWinManager EXCEPT
                            ![w].pc = "listening",
                            ![w].isMaximized = winReply[w].value]
    /\ UNCHANGED outsideWinManager

\* preload.ts:16-17 and part_000:40: the next notification reaches the
\* renderer of surface w; the registered listener stores its argument,
\* `isMaximized.value = _isMaximized`, and with no listener registered the
\* message is dropped
onWindowMaximized(w) ==
    /\ wstate[w] \in {"live", "closing"}
    /\ notificationsInFlight(w) > 0
    /\ LET u == useWinManager[w]
           _isMaximized == wHist[w].sent[u.seen + 1]
       IN useWinManager' = [useWinManager EXCEPT ![w] =
             [u EXCEPT !.seen = @ + 1,
                       !.isMaximized = IF u.pc = "listening" THEN _isMaximized ELSE @]]
    /\ UNCHANGED outsideWinManager

InitWm ==
    useWinManager = [w \in Windows |-> useWinManagerInit]

\* the surfaces open, the title bar mounts, the windows are maximized,
\* restored and resized, and the notifications travel
NextWinManager ==
    \/ \E w \in Windows : create(w)
    \/ \E w \in Windows : didFinishLoad(w)
    \/ \E w \in TitleBars : useWinManagerMounted(w)
    \/ \E w \in TitleBars : isWindowMaximizedInvoked(w)
    \/ \E w \in TitleBars : isWindowMaximizedReplied(w)
    \/ \E w \in Windows : handleIsMaximzeWindow(w, "null")
    \/ \E w \in Windows : resize(w)
    \/ \E w \in Windows : updateWinStatusTimer(w)
    \/ \E w \in TitleBars : onWindowMaximized(w)
    \/ WinTick

----------------------------------------------------------------------------
(* src/unnamed/part_007: throttle *)

\* Date.now(): the wall clock in the closure's unit; it is more than `wait`
\* past zero, so a lastExec of 0 always reads as "long ago"
DateNow == now + Wait + 1

\* the closure state right after `throttle(fn, wait, options)` returns
throttle == [timeoutId |-> NullId, timers |-> {}, lastExec |-> 0]

\* a first call that leaves lastExec at 0 whatever `leading` is
throttleStart_unset(th, leading, t) == th.lastExec

\* `if (!lastExec && !leading) lastExec = now`
throttleStart(th, leading, t) ==
    IF th.lastExec = 0 /\ ~leading THEN t ELSE th.lastExec

\* `const remaining = wait - (now - lastExec)`
remaining(th, leading, wait, t) == wait - (t - throttleStart(th, leading, t))

\* `remaining <= 0 || remaining > wait`: the call runs fn synchronously
throttledRunsFn(th, leading, wait, t) ==
    LET r == remaining(th, leading, wait, t)
    IN r <= 0 \/ r > wait

\* throttled whose synchronous branch leaves out `lastExec = now`
throttled_noStamp(th, leading, trailing, wait, t, ctx, args) ==
    LET start == throttleStart(th, leading, t)
        r == remaining(th, leading, wait, t)
    IN IF r <= 0 \/ r > wait
         THEN [timeoutId |-> NullId,
               timers |-> IF th.timeoutId # NullId
                            THEN clearTimeout(th.timers, th.timeoutId)
                            ELSE th.timers,
               lastExec |-> start]
         ELSE IF th.timeoutId = NullId /\ trailing
           THEN LET id == FreshId(th.timers)
                IN [timeoutId |-> id,
                    timers |-> th.timers \cup
                        {[id |-> id, deadline |-> t + r, ctx |-> ctx, args |-> args]},
                    lastExec |-> start]
           ELSE [th EXCEPT !.lastExec = start]

\* one call `throttled.apply(ctx, [args])` at Date.now() = t: the closure state
\* after it
throttled(th, leading, trailing, wait, t, ctx, args) ==
    LET start == throttleStart(th, leading, t)
        r == remaining(th, leading, wait, t)
    IN IF r <= 0 \/ r > wait
         THEN [timeoutId |-> NullId,
               timers |-> IF th.timeoutId # NullId
                            THEN clearTimeout(th.timers, th.timeoutId)
                            ELSE th.timers,
               lastExec |-> t]
         ELSE IF th.timeoutId = NullId /\ trailing
           THEN LET id == FreshId(th.timers)
                IN [timeoutId |-> id,
                    timers |-> th.timers \cup
                        {[id |-> id, deadline |-> t + r, ctx |-> ctx, args |-> args]},
                    lastExec |-> start]
           ELSE [th EXCEPT !.lastExec = start]

\* the setTimeout callback of timer x, run at Date.now() = t; it always runs fn
throttleTimerCallback(th, leading, t, x) ==
    [timeoutId |-> NullId,
     timers |-> th.timers \ {x},
     lastExec |-> IF leading THEN t ELSE 0]

\* a cancel() that clears the timer and keeps lastExec
throttleCancel_keepsLastExec(th) ==
    [timeoutId |-> NullId,
     timers |-> IF th.timeoutId # NullId
                  THEN clearTimeout(th.timers, th.timeoutId)
                  ELSE th.timers,
     lastExec |-> th.lastExec]

\* `throttled.cancel()`
throttleCancel(th) ==
    [timeoutId |-> NullId,
     timers |-> IF th.timeoutId # NullId
                  THEN clearTimeout(th.timers, th.timeoutId)
                  ELSE th.timers,
     lastExec |-> 0]

\* a timer of the closure has reached its deadline
ThrTimerDue(th) == \E x \in th.timers : x.deadline <= DateNow

----------------------------------------------------------------------------
(* A stand-alone throttled function driven by arbitrary calls, cancels and  *)
(* the passing of time, under each leading/trailing configuration.          *)

ThrHistInit ==
    [calls |-> 0,               \* calls made so far
     cancels |-> 0,             \* cancel() calls so far
     execs |-> 0,               \* executions of fn so far
     timerExecs |-> 0,          \* ... of which from a setTimeout callback
     lastExecT |-> 0,           \* Date.now() of the most recent execution
     lastExecSync |-> FALSE,    \* it ran inside a call
     lastGap |-> 0,             \* time between the last two executions
     cancelSinceExec |-> FALSE, \* cancel() was called after the last execution
     tooClose |-> FALSE,        \* two executions were less than `wait` apart
     tooCloseNoCancel |-> FALSE,\* ... with no cancel() between them
     lastOp |-> "init",
     pre |-> throttle,          \* the closure state before the last operation
     call |-> [ctx |-> NoCtx, args |-> NoArg],  \* `this` and argument of the last call
     ran |-> FALSE,             \* the last operation executed fn
     with |-> [ctx |-> NoCtx, args |-> NoArg]]  \* what fn was last applied to

\* fn.apply(context, args) observed at Date.now()
ThrObserveExec(h, sync, ctx, args) ==
    LET early == h.execs > 0 /\ DateNow - h.lastExecT < Wait
    IN [h EXCEPT !.execs = @ + 1,
                 !.ran = TRUE,
                 !.with = [ctx |-> ctx, args |-> args],
                 !.timerExecs = IF sync THEN @ ELSE @ + 1,
                 !.lastGap = IF h.execs > 0 THEN DateNow - h.lastExecT ELSE 0,
                 !.lastExecT = DateNow,
                 !.lastExecSync = sync,
                 !.cancelSinceExec = FALSE,
                 !.tooClose = @ \/ early,
                 !.tooCloseNoCancel = @ \/ (early /\ ~h.cancelSinceExec)]

\* part_007:51-80, one call of the throttled function
ThrCall(ctx, args) ==
    /\ thHist.calls < MaxCalls
    /\ ~ThrTimerDue(thInst)
    /\ thInst' = throttled(thInst, thLeading, thTrailing, Wait, DateNow, ctx, args)
    /\ LET h1 == [thHist EXCEPT !.calls = @ + 1, !.lastOp = "call", !.pre = thInst,
                                !.call = [ctx |-> ctx, args |-> args], !.ran = FALSE]
       IN thHist' = IF throttledRunsFn(thInst, thLeading, Wait, DateNow)
                      THEN ThrObserveExec(h1, TRUE, ctx, args)
                      ELSE h1
    /\ UNCHANGED <<now, thLeading, thTrailing, outsideThrottle>>

\* part_007:73-78, the setTimeout callback
ThrTimerFire ==
    \E x \in thInst.timers :
        /\ x.deadline <= DateNow
        /\ thInst' = throttleTimerCallback(thInst, thLeading, DateNow, x)
        /\ thHist' = ThrObserveExec(
                        [thHist EXCEPT !.lastOp = "fire", !.pre = thInst], FALSE,
                        x.ctx, x.args)
        /\ UNCHANGED <<now, thLeading, thTrailing, outsideThrottle>>

\* part_007:83-89
ThrCancel ==
    /\ thHist.cancels < MaxCancels
    /\ thInst' = throttleCancel(thInst)
    /\ thHist' = [thHist EXCEPT !.cancels = @ + 1,
                                !.cancelSinceExec = (thHist.execs > 0),
                                !.lastOp = "cancel",
                                !.pre = thInst,
                                !.ran = FALSE]
    /\ UNCHANGED <<now, thLeading, thTrailing, outsideThrottle>>

\* the clock advances; a due timer runs first
ThrTick ==
    /\ now < MaxTime
    /\ ~ThrTimerDue(thInst)
    /\ now' = now + 1
    /\ thHist' = [thHist EXCEPT !.lastOp = "tick", !.pre = thInst, !.ran = FALSE]
    /\ UNCHANGED <<thInst, thLeading, thTrailing, outsideThrottle>>

InitThr ==
    /\ thInst = throttle
    /\ thLeading \in BOOLEAN
    /\ thTrailing \in BOOLEAN
    /\ thHist = ThrHistInit

NextThrottle ==
    \/ \E ctx \in Contexts, args \in ArgVals : ThrCall(ctx, args)
    \/ ThrTimerFire
    \/ ThrCancel
    \/ ThrTick

----------------------------------------------------------------------------
(* src/main/service/LogService.ts                                          *)
(* Time is counted in calendar days; the host starts on day 0 and files of *)
(* earlier runs carry negative days.                                       *)

\* `private LOG_RETENTION_DAYS = 7`
LOG_RETENTION_DAYS == 7

\* the four levels of the public operations debug/info/warn/error
Levels == {"debug", "info", "warn", "error"}

\* IPC_EVENTS.LOG_DEBUG .. LOG_ERROR
LogChannel(level) == "log-" \o level
LogChannels == {LogChannel(level) : level \in Levels}

\* the messages and metadata a caller passes
Messages == {"m1", "m2"}
Metas == {"metaA", "metaB"}

\* the name of a directory entry: stem, date part and extension
NoName == [stem |-> "", date |-> "", ext |-> ""]

\* `${getFullYear()}-${month}-${day}`: the date part of a day-file name
formattedDate(day) == ToString(day)

\* a path resolved once, when the service is constructed on day 0
resolvePathFn_atStartup(day) == [stem |-> "log-", date |-> formattedDate(0), ext |-> ".log"]

\* resolvePathFn: `log-${formattedDate}.log`, the file a write on `day` appends to
resolvePathFn(day) == [stem |-> "log-", date |-> formattedDate(day), ext |-> ".log"]

\* a sweep that takes every name of the directory
endsWithLog_any(name) == TRUE

\* `file.endsWith('.log')`
endsWithLog(name) == name.ext = ".log"

\* the day-file pattern log-YYYY-MM-DD.<ext>
IsDayFileName(name) == name.stem = "log-" /\ name.date # ""

\* a comparison that also takes the file created exactly at the cutoff
isExpired_inclusive(birthtime, expirationDate) == birthtime <= expirationDate

\* `stats.birthtime < expirationDate`
isExpired(birthtime, expirationDate) == birthtime < expirationDate

\* a cutoff that forgets the retention period
expirationDate_noRetention(day) == day + 1

\* `new Date(now.getTime() - LOG_RETENTION_DAYS * 24 * 60 * 60 * 1000)`
expirationDate(day) == day - LOG_RETENTION_DAYS

\* a sweep that goes on to read a directory that does not exist
skipsMissingDir_never(dir) == FALSE

\* `if (!fs.existsSync(logPath)) return`
skipsMissingDir(dir) == ~dir.exists

\* a sweep without the try/catch around each file
caughtBy_outerOnly(op) == "outer"

\* the catch block an exception of readdir, stat or unlink lands in: the
\* per-file try/catch (170-181) or the one around the whole sweep (142-191)
caughtBy(op) == IF op \in {"stat", "unlink"} THEN "inner" ELSE "outer"

\* the directory entry of that name, as a set of at most one element
Entry(dir, name) == {f \in dir.files : f.name = name}

\* the lines in the file of that name; a name not in the directory has none
Lines(dir, name) == IF name \in DOMAIN dir.lines THEN dir.lines[name] ELSE 0

\* fs.writeFileSync(path, line, {flag: 'a'}): one more line in that file, which
\* is created when missing; no other file is touched
AppendLine(dir, name) ==
    [n \in DOMAIN dir.lines \cup {name} |->
        IF n = name THEN Lines(dir, name) + 1 ELSE dir.lines[n]]

\* electron-log's file transport appends one line to resolvePathFn(), creating
\* the file, and the directory, when missing
WriteEntry(dir, day) ==
    [exists |-> TRUE,
     files |-> IF Entry(dir, resolvePathFn(day)) # {}
                 THEN dir.files
                 ELSE dir.files \cup
                        {[name |-> resolvePathFn(day), birth |-> day, isFile |-> TRUE]},
     lines |-> AppendLine(dir, resolvePathFn(day))]

\* the entry debug/info/warn/error(message, ...meta) appends on `day`
LogEntry(level, message, meta, day) ==
    [level |-> level, message |-> message, meta |-> meta, file |-> resolvePathFn(day)]

\* _setupIpcEvent(): the channels it would register a listener for
_setupIpcEvent == LogChannels

\* the log channels ipcMain listens on after the constructor: the constructor
\* (43-93) never calls _setupIpcEvent, and nothing else does
constructorIpcChannels == {}

\* the day files earlier runs may have left behind, named and created 1, 7, 8
\* and 10 days before the start
OldDayFiles ==
    {[name |-> resolvePathFn(0 - age), birth |-> 0 - age, isFile |-> TRUE] :
        age \in {1, LOG_RETENTION_DAYS, LOG_RETENTION_DAYS + 1, LOG_RETENTION_DAYS + 3}}

\* what else is in the directory: an old *.log file that is no day file, an old
\* file that is no *.log, and an old subdirectory named *.log
OtherEntries ==
    {[name |-> [stem |-> "debug", date |-> "", ext |-> ".log"],
      birth |-> 0 - (LOG_RETENTION_DAYS + 2), isFile |-> TRUE],
     [name |-> [stem |-> "notes", date |-> "", ext |-> ".txt"],
      birth |-> 0 - (LOG_RETENTION_DAYS + 4), isFile |-> TRUE],
     [name |-> [stem |-> "archive", date |-> "", ext |-> ".log"],
      birth |-> 0 - (LOG_RETENTION_DAYS + 5), isFile |-> FALSE]}

\* what those entries hold when the host starts: a line in every file
OldLines(files) ==
    [n \in {f.name : f \in files} |->
        IF \E f \in files : f.name = n /\ f.isFile THEN 1 ELSE 0]

SweepIdle ==
    [pc |-> "idle", expiration |-> 0, todo |-> <<>>, cur |-> NoName, deletedCount |-> 0]

\* what one sweep has done so far
SweepHist(n, absent, day, exp) ==
    [sweeps |-> n,              \* sweeps started so far
     startedAbsent |-> absent,  \* the directory did not exist when it started
     started |-> day,           \* the day it started on
     expiration |-> exp,        \* its cutoff
     listing |-> {},            \* the entries readdir returned
     listed |-> FALSE,
     deleted |-> {},            \* the names it has deleted
     failed |-> {},             \* the names whose stat or unlink failed
     logged |-> 0,              \* the entries it has appended to the log
     threw |-> FALSE,           \* an exception left _cleanupOldLogs
     aborted |-> FALSE,         \* it ended in the outer catch
     done |-> TRUE,             \* it has returned
     dirRemoved |-> FALSE,      \* the directory was removed while it ran
     deletedActive |-> FALSE]   \* it deleted the file a write would append to

\* what is observed of the constructor
NotConstructed ==
    [pc |-> "starting",         \* "done" once it has returned, "threw" if it threw
     mkdirFailed |-> FALSE,     \* fs.mkdirSync threw
     reported |-> FALSE,        \* 'Failed to create log directory:' was logged
     timer |-> FALSE]           \* setInterval has scheduled the daily sweep

NoIpc == [sent |-> FALSE, level |-> "", message |-> "", meta |-> "",
          appended |-> 0, entry |-> LogEntry("", "", "", 0)]

\* the entries of a directory in its own order, here the order of creation
RECURSIVE DirOrder(_)
DirOrder(files) ==
    IF files = {}
      THEN <<>>
      ELSE LET first == CHOOSE f \in files : \A g \in files : f.birth <= g.birth
           IN <<first.name>> \o DirOrder(files \ {first})

\* `if (!file.endsWith('.log')) continue`: the names still to visit, from the
\* first one that ends in .log
RECURSIVE SkipOthers(_)
SkipOthers(names) ==
    IF names = <<>> \/ endsWithLog(Head(names))
      THEN names
      ELSE SkipOthers(Tail(names))

\* the sweep runs on from the state sw to its next await: `await statASync`
\* of the next name that ends in .log, or, the loop being over,
\* `if (deletedCount > 0) this.info(...)` and the return (163-187)
SweepContinues(sw, dir, entry, h) ==
    LET names == SkipOthers(sw.todo)
    IN IF names # <<>>
         THEN /\ sweep' = [sw EXCEPT !.pc = "stat", !.cur = Head(names),
                                     !.todo = Tail(names)]
              /\ logDir' = dir
              /\ lastEntry' = entry
              /\ lHist' = [lHist EXCEPT !.sw = h]
         ELSE /\ sweep' = SweepIdle
              /\ IF sw.deletedCount > 0
                   THEN /\ logDir' = WriteEntry(dir, today)
                        /\ lastEntry' = LogEntry("info",
                              "Successfully cleaned up old log files.", "", today)
                        /\ lHist' = [lHist EXCEPT !.sw =
                              [h EXCEPT !.logged = @ + 1, !.done = TRUE]]
                   ELSE /\ logDir' = dir
                        /\ lastEntry' = entry
                        /\ lHist' = [lHist EXCEPT !.sw = [h EXCEPT !.done = TRUE]]

\* an exception of `op` on entry `name` at an await of the sweep: it lands in a
\* catch block, which logs it with this.error; the per-file catch goes on with
\* the next name, the outer one ends the sweep; one that no catch block took
\* would leave _cleanupOldLogs
SweepFails(op, name) ==
    LET h == [lHist.sw EXCEPT !.failed = @ \cup {name}, !.logged = @ + 1]
    IN CASE caughtBy(op) = "inner" ->
              SweepContinues([sweep EXCEPT !.cur = NoName],
                             WriteEntry(logDir, today),
                             LogEntry("error", "Failed to cleanup old log file:", "", today),
                             h)
         [] caughtBy(op) = "outer" ->
              /\ sweep' = SweepIdle
              /\ logDir' = WriteEntry(logDir, today)
              /\ lastEntry' = LogEntry("error", "Failed to cleanup old logs:", "", today)
              /\ lHist' = [lHist EXCEPT !.sw =
                    [h EXCEPT !.aborted = TRUE, !.done = TRUE]]
         [] OTHER ->
              /\ sweep' = SweepIdle
              /\ lHist' = [lHist EXCEPT !.sw =
                    [lHist.sw EXCEPT !.failed = @ \cup {name}, !.threw = TRUE,
                                     !.done = TRUE]]
              /\ UNCHANGED <<logDir, lastEntry>>

\* an await of the sweep may settle with an exception the model injects
\* (permission denied, file in use), at most MaxFailures times per sweep
MayFail(ok) == ok \/ Cardinality(lHist.sw.failed) < MaxFailures

\* setInterval(() => this._cleanupOldLogs(), CLEANUP_INTERVAL_MS): a sweep
\* starts and runs up to `await readdirASync(logPath)` (141-157)
sweepStart ==
    /\ sweep.pc = "idle"
    /\ lHist.sw.sweeps < MaxSweeps
    /\ IF skipsMissingDir(logDir)
         THEN /\ sweep' = SweepIdle
              /\ lHist' = [lHist EXCEPT !.sw =
                              SweepHist(lHist.sw.sweeps + 1, ~logDir.exists, today, 0)]
         ELSE /\ sweep' = [SweepIdle EXCEPT !.pc = "readdir",
                                            !.expiration = expirationDate(today)]
              /\ lHist' = [lHist EXCEPT !.sw =
                              [SweepHist(lHist.sw.sweeps + 1, ~logDir.exists, today,
                                         expirationDate(today))
                                 EXCEPT !.done = FALSE]]
    /\ UNCHANGED <<today, logDir, ipcLogChannels, lastEntry, outsideLog>>

\* readdir settles with the names of the directory, and the loop runs up to
\* its first await; or readdir settles with an exception
sweepReaddir(ok) ==
    /\ sweep.pc = "readdir"
    /\ MayFail(ok)
    /\ IF ok /\ logDir.exists
         THEN SweepContinues([sweep EXCEPT !.todo = DirOrder(logDir.files)],
                             logDir, lastEntry,
                             [lHist.sw EXCEPT !.listing = logDir.files,
                                              !.listed = TRUE])
         ELSE SweepFails("readdir", NoName)
    /\ UNCHANGED <<today, ipcLogChannels, outsideLog>>

\* stat settles: for a regular file older than the cutoff `await unlinkASync`
\* is issued, otherwise the loop goes on; or stat settles with an exception
sweepStat(ok) ==
    /\ sweep.pc = "stat"
    /\ MayFail(ok)
    /\ LET found == Entry(logDir, sweep.cur)
       IN IF ok /\ found # {}
            THEN IF \E f \in found : f.isFile /\ isExpired(f.birth, sweep.expiration)
                   THEN /\ sweep' = [sweep EXCEPT !.pc = "unlink"]
                        /\ UNCHANGED <<logDir, lastEntry, lHist>>
                   ELSE SweepContinues([sweep EXCEPT !.cur = NoName],
                                       logDir, lastEntry, lHist.sw)
            ELSE SweepFails("stat", sweep.cur)
    /\ UNCHANGED <<today, ipcLogChannels, outsideLog>>

\* unlink settles: the file is gone, deletedCount++ and the loop goes on; or
\* unlink settles with an exception
sweepUnlink(ok) ==
    /\ sweep.pc = "unlink"
    /\ MayFail(ok)
    /\ LET found == Entry(logDir, sweep.cur)
       IN IF ok /\ found # {}
            THEN SweepContinues(
                    [sweep EXCEPT !.cur = NoName, !.deletedCount = @ + 1],
                    [logDir EXCEPT !.files = @ \ found,
                                   !.lines = [n \in DOMAIN @ \ {sweep.cur} |-> @[n]]],
                    lastEntry,
                    [lHist.sw EXCEPT
                        !.deleted = @ \cup {sweep.cur},
                        !.deletedActive = @ \/ sweep.cur = resolvePathFn(today)])
            ELSE SweepFails("unlink", sweep.cur)
    /\ UNCHANGED <<today, ipcLogChannels, outsideLog>>

\* host code calls logManager.debug/info/warn/error(message, ...meta) (209-235)
hostLog(level, message, meta) ==
    /\ Lines(logDir, resolvePathFn(today)) < MaxLines
    /\ logDir' = WriteEntry(logDir, today)
    /\ lastEntry' = LogEntry(level, message, meta, today)
    /\ UNCHANGED <<today, sweep, ipcLogChannels, lHist, outsideLog>>

\* a renderer calls api.logger.<level>(message, ...meta): ipcRenderer.send on
\* the level's channel; ipcMain runs the listener registered for it, if any
rendererLog(level, message, meta) ==
    /\ LogChannel(level) \in ipcLogChannels =>
          Lines(logDir, resolvePathFn(today)) < MaxLines
    /\ IF LogChannel(level) \in ipcLogChannels
         THEN /\ logDir' = WriteEntry(logDir, today)
              /\ lastEntry' = LogEntry(level, message, meta, today)
         ELSE UNCHANGED <<logDir, lastEntry>>
    /\ lHist' = [lHist EXCEPT !.ipc =
          [sent |-> TRUE, level |-> level, message |-> message, meta |-> meta,
           appended |-> IF LogChannel(level) \in ipcLogChannels THEN 1 ELSE 0,
           entry |-> lastEntry']]
    /\ UNCHANGED <<today, sweep, ipcLogChannels, outsideLog>>

\* midnight: the next calendar day begins
dayRollover ==
    /\ today < MaxRollovers
    /\ today' = today + 1
    /\ UNCHANGED <<logDir, sweep, ipcLogChannels, lastEntry, lHist, outsideLog>>

\* somebody outside the host removes the log directory with all its files
removeLogDir ==
    /\ logDir.exists
    /\ logDir' = [exists |-> FALSE, files |-> {}, lines |-> [n \in {} |-> 0]]
    /\ lHist' = [lHist EXCEPT !.sw.dirRemoved = TRUE]
    /\ UNCHANGED <<today, sweep, ipcLogChannels, lastEntry, outsideLog>>

\* the constructor (43-93): the directory is created, 'LogService initialized
\* successfully' is appended to that day's file, and the startup sweep has
\* run up to its first await; `old` is what earlier runs left behind
InitLog(old) ==
    /\ today = 0
    /\ logDir = WriteEntry([exists |-> TRUE, files |-> old \cup OtherEntries,
                             lines |-> OldLines(old \cup OtherEntries)], 0)
    /\ sweep = [SweepIdle EXCEPT !.pc = "readdir", !.expiration = expirationDate(0)]
    /\ ipcLogChannels = constructorIpcChannels
    /\ lastEntry = LogEntry("info", "LogService initialized successfully", "", 0)
    /\ lHist = [sw |-> [SweepHist(1, FALSE, 0, expirationDate(0)) EXCEPT !.done = FALSE],
                ipc |-> NoIpc,
                ctor |-> [NotConstructed EXCEPT !.pc = "done", !.timer = TRUE]]

\* a constructor without the try/catch around the creation of the directory
mkdirCaught_never == FALSE

\* `try { if (!fs.existsSync(logPath)) fs.mkdirSync(logPath) } catch (err)
\* { this.error(...) }` (48-55): an exception of mkdirSync is caught
mkdirCaught == TRUE

\* the file electron-log's file transport writes to until resolvePathFn is
\* assigned (line 61): main.log in <userData>/logs
DefaultLogFile == [stem |-> "main", date |-> "", ext |-> ".log"]

\* the file transport appends one line to its default file, creating the
\* file, and the directory, when missing
WriteDefault(dir, day) ==
    [exists |-> TRUE,
     files |-> IF Entry(dir, DefaultLogFile) # {}
                 THEN dir.files
                 ELSE dir.files \cup
                        {[name |-> DefaultLogFile, birth |-> day, isFile |-> TRUE]},
     lines |-> AppendLine(dir, DefaultLogFile)]

\* the constructor (43-93), run when the host starts: the directory is
\* created when missing, and when that fails the exception is caught and
\* logged with this.error, which reaches the console transport and, resolvePathFn
\* not being assigned yet, the transport's default file; then resolvePathFn is
\* assigned, 'LogService initialized successfully' is logged, the startup sweep
\* runs up to its first await and setInterval schedules the daily sweep.
\* mkdirOk: mkdirSync succeeds; transportOk: the file transport manages to
\* create the directory that mkdirSync could not
constructor(mkdirOk, transportOk) ==
    /\ lHist.ctor.pc = "starting"
    /\ LET failed == ~logDir.exists /\ ~mkdirOk
           d1 == IF logDir.exists \/ failed THEN logDir
                                             ELSE [logDir EXCEPT !.exists = TRUE]
           writable == d1.exists \/ transportOk
           d2 == IF failed /\ writable THEN WriteDefault(d1, today) ELSE d1
           d3 == IF writable THEN WriteEntry(d2, today) ELSE d2
       IN IF failed /\ ~mkdirCaught
            THEN /\ lHist' = [lHist EXCEPT !.ctor =
                        [NotConstructed EXCEPT !.pc = "threw", !.mkdirFailed = TRUE]]
                 /\ UNCHANGED <<logDir, sweep, ipcLogChannels, lastEntry>>
            ELSE /\ logDir' = d3
                 /\ lastEntry' = LogEntry("info", "LogService initialized successfully",
                                          "", today)
                 /\ ipcLogChannels' = constructorIpcChannels
                 /\ sweep' = IF skipsMissingDir(d3)
                               THEN SweepIdle
                               ELSE [SweepIdle EXCEPT !.pc = "readdir",
                                                      !.expiration = expirationDate(today)]
                 /\ lHist' = [lHist EXCEPT
                       !.sw = IF skipsMissingDir(d3)
                                THEN SweepHist(1, TRUE, today, 0)
                                ELSE [SweepHist(1, FALSE, today, expirationDate(today))
                                        EXCEPT !.done = FALSE],
                       !.ctor = [pc |-> "done", mkdirFailed |-> failed,
                                 reported |-> failed, timer |-> TRUE]]
    /\ UNCHANGED <<today, outsideLog>>

\* the host before the constructor has run: the directory is missing, or
\* earlier runs have left it behind with their files
InitStartup ==
    /\ today = 0
    /\ logDir \in {[exists |-> FALSE, files |-> {}, lines |-> [n \in {} |-> 0]],
                    [exists |-> TRUE, files |-> OldDayFiles \cup OtherEntries,
                     lines |-> OldLines(OldDayFiles \cup OtherEntries)]}
    /\ sweep = SweepIdle
    /\ ipcLogChannels = {}
    /\ lastEntry = LogEntry("", "", "", 0)
    /\ lHist = [sw |-> SweepHist(0, FALSE, 0, 0), ipc |-> NoIpc, ctor |-> NotConstructed]

\* the host starts, and once the service is constructed its timer starts the
\* sweeps and the host writes
NextStartup ==
    \/ \E mkdirOk \in BOOLEAN, transportOk \in BOOLEAN : constructor(mkdirOk, transportOk)
    \/ lHist.ctor.timer /\ sweepStart
    \/ \E ok \in BOOLEAN : sweepReaddir(ok)
    \/ \E ok \in BOOLEAN : sweepStat(ok)
    \/ \E ok \in BOOLEAN : sweepUnlink(ok)
    \/ lHist.ctor.pc = "done" /\ Lines(logDir, resolvePathFn(today)) = 0
          /\ hostLog("info", "m1", "metaA")
    \/ lHist.ctor.pc = "done" /\ dayRollover

\* the retention sweeps, with the day changes and removals around them and the
\* write that opens a day's file (the later entries of a day change nothing a
\* sweep reads)
NextLog ==
    \/ sweepStart
    \/ \E ok \in BOOLEAN : sweepReaddir(ok)
    \/ \E ok \in BOOLEAN : sweepStat(ok)
    \/ \E ok \in BOOLEAN : sweepUnlink(ok)
    \/ Lines(logDir, resolvePathFn(today)) = 0 /\ hostLog("info", "m1", "metaA")
    \/ dayRollover
    \/ removeLogDir

\* the entries the host and the renderers write
NextLogEntries ==
    \/ \E level \in Levels, message \in Messages, meta \in Metas :
          hostLog(level, message, meta)
    \/ \E level \in Levels, message \in Messages, meta \in Metas :
          rendererLog(level, message, meta)
    \/ dayRollover
    \/ removeLogDir

\* the entries of each level the host writes day after day, next to a message
\* of a renderer and the loss of the directory
NextDayFiles ==
    \/ \E level \in Levels : hostLog(level, "m1", "metaA")
    \/ rendererLog("warn", "m2", "metaB")
    \/ dayRollover
    \/ removeLogDir

----------------------------------------------------------------------------
(* Specifications: one per component.  The host starts with no window, its  *)
(* services constructed; a component a specification does not exercise     *)
(* starts in one fixed state and stays there.                              *)

\* the window service: surfaces, their resize notifier and the clock
Init ==
    /\ now = 0
    /\ InitDeb /\ ~dImmediate
    /\ InitWin
    /\ InitTheme /\ ~osDark
    /\ InitThr /\ thLeading /\ thTrailing
    /\ InitCmd
    /\ InitSurf
    /\ InitWm
    /\ InitLog({})

Spec == Init /\ [][NextWindows]_vars

\* a stand-alone debounced function, of either mode
InitDebounce ==
    /\ now = 0
    /\ InitDeb
    /\ InitWin
    /\ InitTheme /\ ~osDark
    /\ InitThr /\ thLeading /\ thTrailing
    /\ InitCmd
    /\ InitSurf
    /\ InitWm
    /\ InitLog({})

SpecDebounce == InitDebounce /\ [][NextDebounce]_vars

\* the theme service and the surfaces it broadcasts to, under either OS setting
InitThemeService ==
    /\ now = 0
    /\ InitDeb /\ ~dImmediate
    /\ InitWin
    /\ InitTheme
    /\ InitThr /\ thLeading /\ thTrailing
    /\ InitCmd
    /\ InitSurf
    /\ InitWm
    /\ InitLog({})

SpecTheme == InitThemeService /\ [][NextTheme]_vars

\* a stand-alone throttled function, under each leading/trailing configuration
InitThrottle ==
    /\ now = 0
    /\ InitDeb /\ ~dImmediate
    /\ InitWin
    /\ InitTheme /\ ~osDark
    /\ InitThr
    /\ InitCmd
    /\ InitSurf
    /\ InitWm
    /\ InitLog({})

SpecThrottle == InitThrottle /\ [][NextThrottle]_vars

\* the title bars of the surfaces and the windows they follow
InitWinManager ==
    /\ now = 0
    /\ InitDeb /\ ~dImmediate
    /\ InitWin
    /\ InitTheme /\ ~osDark
    /\ InitThr /\ thLeading /\ thTrailing
    /\ InitCmd
    /\ InitSurf
    /\ InitWm
    /\ InitLog({})

SpecWinManager == InitWinManager /\ [][NextWinManager]_vars

\* the window commands and requests of the surfaces, and close(handle)
InitCommands ==
    /\ now = 0
    /\ InitDeb /\ ~dImmediate
    /\ InitWin
    /\ InitTheme /\ ~osDark
    /\ InitThr /\ thLeading /\ thTrailing
    /\ InitCmd
    /\ InitSurf
    /\ InitWm
    /\ InitLog({})

SpecCommands == InitCommands /\ [][NextCommands]_vars

\* the retention sweep over what earlier runs left in the log directory
InitLogService ==
    /\ now = 0
    /\ InitDeb /\ ~dImmediate
    /\ InitWin
    /\ InitTheme /\ ~osDark
    /\ InitThr /\ thLeading /\ thTrailing
    /\ InitCmd
    /\ InitSurf
    /\ InitWm
    /\ \E old \in SUBSET OldDayFiles : InitLog(old)

SpecLog == InitLogService /\ [][NextLog]_vars

\* the log entries written by the host and forwarded by the renderers
SpecLogEntries == Init /\ [][NextLogEntries]_vars

\* the day files the host writes as the days pass
SpecDayFiles == Init /\ [][NextDayFiles]_vars

\* the theme as the surfaces hold it, under either OS setting
SpecSurfaces == InitThemeService /\ [][NextSurfaces]_vars

InitHostStarting ==
    /\ now = 0
    /\ InitDeb /\ ~dImmediate
    /\ InitWin
    /\ InitTheme /\ ~osDark
    /\ InitThr /\ thLeading /\ thTrailing
    /\ InitCmd
    /\ InitSurf
    /\ InitWm
    /\ InitStartup

\* the start of the host: the log service is constructed, then runs
SpecStartup == InitHostStarting /\ [][NextStartup]_vars

----------------------------------------------------------------------------
(* Properties of the window service *)

\* C1: under every interleaving of resize events, timer firings, close
\* requests and OS teardown, no maximize-window+"back" notification is sent
\* to a surface once it is destroyed.
C1_NoNotificationAfterDestroyed ==
    \A w \in Windows : ~wHist[w].sentDestroyed

\* the debounce timer of a surface fired after the surface was destroyed, and
\* the callback sent nothing
C1_Witness ==
    \E w \in Windows :
        /\ isDestroyed(w)
        /\ wHist[w].ranDestroyed
        /\ wHist[w].resizes > 0
        /\ wHist[w].burstNotifs = 0

\* C2 (as claimed): once a surface has entered closing its debounced resize
\* callback never runs again, and no timer of it is left armed once it is
\* destroyed.
C2_TimerCancelledOnClosing ==
    \A w \in Windows :
        /\ ~wHist[w].ranClosing
        /\ isDestroyed(w) => updateWinStatus[w].timers = {}

----------------------------------------------------------------------------
(* Properties of the theme service *)

\* the isDark a mode resolves to: dark -> true, light -> false, system -> the
\* operating system's setting
ExpectedIsDark(mode, os) ==
    (mode = "dark") \/ (mode = "system" /\ os)

IsLive(w) == wstate[w] = "live"

\* C3: every handling of a theme-change signal sends theme-mode-updated, with
\* the isDark resolved at that moment, to every surface live at that moment
\* and to no destroyed surface; a surface it is not sent to receives nothing.
C3_BroadcastToLiveNotDestroyed ==
    [][updatedPending' < updatedPending =>
          LET to == tHist'.bcastTo
          IN /\ {w \in Windows : IsLive(w)} \subseteq to
             /\ to \cap {w \in Windows : isDestroyed(w)} = {}
             /\ \A w \in to :
                   themeRecv'[w] = [got |-> TRUE,
                                    isDark |-> ExpectedIsDark(themeSource, osDark)]
             /\ \A w \in Windows \ to : themeRecv'[w] = themeRecv[w]]_vars

\* a broadcast went to a live surface while the other surface was destroyed,
\* and the destroyed one has never been sent anything
C3_Witness ==
    \E w1, w2 \in Windows :
        /\ IsLive(w1) /\ isDestroyed(w2)
        /\ tHist.bcastTo = {w1} /\ tHist.bcastDestroyed = {w2}
        /\ themeRecv[w1].got /\ ~themeRecv[w2].got

\* C4: a set-theme-mode(m) request replies dark -> true, light -> false,
\* system -> the OS setting; with no OS change in between, a following
\* is-dark-theme request returns the same, and a following get-theme-mode
\* request returns m.
C4_SetModeThenRead ==
    tHist.lastSet.valid =>
        /\ ~tHist.osSinceSet =>
              tHist.lastSet.reply = ExpectedIsDark(tHist.lastSet.mode, osDark)
        /\ (tHist.isDarkAfterSet.asked /\ ~tHist.osSinceSet) =>
              tHist.isDarkAfterSet.value = ExpectedIsDark(tHist.lastSet.mode, osDark)
        /\ tHist.modeAfterSet.asked =>
              tHist.modeAfterSet.value = tHist.lastSet.mode

\* set-theme-mode(system) under a dark OS replied true while the cached flag
\* still said light, and the two reads that followed agreed
C4_Witness ==
    /\ tHist.lastSet.valid /\ tHist.lastSet.mode = "system" /\ tHist.lastSet.reply
    /\ osDark /\ ~tHist.osSinceSet /\ ~_isDark
    /\ tHist.isDarkAfterSet.asked /\ tHist.isDarkAfterSet.value
    /\ tHist.modeAfterSet.asked

\* C5 (as claimed): when a set-theme-mode request has changed the resolved
\* isDark, every live surface has been sent the new value by the time the
\* handler returns.
C5_NotifiedBeforeReturn ==
    [][(themeSource' # themeSource
          /\ ExpectedIsDark(themeSource', osDark') # ExpectedIsDark(themeSource, osDark))
        => \A w \in Windows :
              IsLive(w) => themeRecv'[w] =
                  [got |-> TRUE, isDark |-> ExpectedIsDark(themeSource', osDark')]]_vars

\* C5 (amended): a set-theme-mode request sends no notification itself; when it
\* changes the resolved isDark it leaves a nativeTheme 'updated' emission
\* pending, and one stays pending for as long as the cached flag differs from
\* the resolved value; handling an emission (a later turn of the event loop,
\* for set-theme-mode and OS changes alike) refreshes the flag and sends the
\* isDark resolved at that moment to every surface then live.
C5_NotifiedByUpdatedEvent ==
    [][/\ (themeSource' # themeSource) =>
             /\ themeRecv' = themeRecv
             /\ (ExpectedIsDark(themeSource', osDark') # ExpectedIsDark(themeSource, osDark))
                   => updatedPending' = updatedPending + 1
       /\ (_isDark' # ExpectedIsDark(themeSource', osDark')) => updatedPending' > 0
       /\ (updatedPending' < updatedPending) =>
             /\ _isDark' = ExpectedIsDark(themeSource, osDark)
             /\ \A w \in Windows :
                   IsLive(w) => themeRecv'[w] = [got |-> TRUE, isDark |-> _isDark']]_vars

\* set-theme-mode(light) turned the theme light and the 'updated' emission it
\* left has been handled: a live surface has been sent isDark = false
C5_Witness ==
    /\ tHist.lastSet.valid /\ themeSource = "light"
    /\ updatedPending = 0 /\ ~_isDark
    /\ \E w \in Windows :
          IsLive(w) /\ themeRecv[w] = [got |-> TRUE, isDark |-> FALSE]

\* C6 (as claimed): in every reachable state both host-side reads of isDark,
\* the is-dark-theme handler and the ThemeService.isDark getter, return the
\* value resolved from the current mode.
C6_ReadsNeverStale ==
    /\ handleIsDarkTheme = ExpectedIsDark(themeSource, osDark)
    /\ isDark = ExpectedIsDark(themeSource, osDark)

\* no theme message is on its way and no 'updated' emission waits
Quiescent ==
    /\ updatedPending = 0
    /\ \A w \in Windows : ipcCalls[w] = <<>> /\ ipcInbox[w] = <<>>

\* the surface holds the host's current mode and resolved isDark
HoldsHostTheme(w) ==
    /\ useThemeMode[w].themeMode = themeSource
    /\ useThemeMode[w].isDark = ExpectedIsDark(themeSource, osDark)

C23_SurfacesConverge ==
    (Quiescent /\ uHist.sets > 0) =>
        \A w \in Windows :
            (IsLive(w) /\ useThemeMode[w].mounted) => HoldsHostTheme(w)

\* a step in which the host handles a set-theme-mode request of surface w
HandlesSet(w) ==
    /\ ipcCalls[w] # <<>>
    /\ Head(ipcCalls[w]).ch = "set-theme-mode"
    /\ ipcCalls'[w] = Tail(ipcCalls[w])

\* a step in which a broadcast arrives at surface w
BroadcastArrives(w) ==
    CountOf(ipcInbox'[w], "event") < CountOf(ipcInbox[w], "event")

\* a step in which the host sends a broadcast to surface w
BroadcastSent(w) ==
    CountOf(ipcInbox'[w], "event") > CountOf(ipcInbox[w], "event")

\* the message the step has put on its way to surface w
LastSent(w) == ipcInbox'[w][Len(ipcInbox'[w])]

C29_ListenersBeforeLoad ==
    \A w \in Windows :
        /\ wstate[w] \in {"created", "live", "closing"} =>
              (closedListener[w] /\ resizeListener[w])
        /\ wstate[w] = "destroyed" => (~closedListener[w] /\ ~resizeListener[w])
        /\ wstate[w] = "none" => (~closedListener[w] /\ ~resizeListener[w])

\* a surface that is still loading has had a resize event, for which the
\* notifier is armed
C29_Witness ==
    \E w \in Windows :
        /\ wstate[w] = "created"
        /\ wHist[w].resizes > 0 /\ wHist[w].lastResizeT = now
        /\ updateWinStatus[w].timers # {}

\* the notifier and what is observed of the notifications of surface w
NotifierOf(w) == <<updateWinStatus[w], wHist[w].notifs, wHist[w].lastNotif>>

\* everything of surface w
SurfaceOf(w) ==
    <<wstate[w], resizeListener[w], closedListener[w], updateWinStatus[w], wHist[w]>>

\* C30: the resize notifiers are per surface.  A step that arms, restarts,
\* cancels or fires the notifier of a surface, or sends it a notification,
\* changes nothing of any other surface, so no event, timer or closing of one
\* surface touches the notifier of another; every timer of a surface's
\* notifier was armed by a resize of that surface, and a notification sent
\* to a surface reports that surface's own last resize.
C30_NotifiersIndependent ==
    [][\A w \in Windows :
          /\ NotifierOf(w)' # NotifierOf(w) =>
                \A v \in Windows \ {w} : SurfaceOf(v)' = SurfaceOf(v)
          /\ \A x \in updateWinStatus'[w].timers :
                x.ctx = w /\ wHist'[w].resizes > 0
          /\ wHist'[w].notifs > wHist[w].notifs =>
                /\ \E x \in updateWinStatus[w].timers : x.deadline <= now
                /\ wHist'[w].lastNotif.resizeT = wHist[w].lastResizeT
      ]_vars

\* main has been sent its notification while the timer a later resize of
\* setting armed is still pending
C30_Witness ==
    /\ wHist["main"].notifs = 1 /\ updateWinStatus["main"].timers = {}
    /\ wHist["setting"].notifs = 0 /\ wHist["setting"].resizes > 0
    /\ \E x \in updateWinStatus["setting"].timers :
          x.deadline > wHist["main"].lastNotif.t /\ x.deadline > now

----------------------------------------------------------------------------
(* Properties of the window commands *)

\* the part of the state a window operation can be seen to change
Observable == <<winVars, maximized, minimized, winReply>>

\* C12 (as claimed): close(handle) with a null or an already destroyed handle
\* raises no error and changes no state, and close(handle) on a handle that is
\* already closing (a second call) changes no state either.
C12_CloseSilentNoOp ==
    [][\A h \in Windows \cup {"null"} :
          closeHandle(h) =>
              /\ StateOf(h) \in {"null", "destroyed"} =>
                    (~cHist'.threw /\ UNCHANGED Observable)
              /\ StateOf(h) = "closing" =>
                    (~cHist'.threw /\ UNCHANGED Observable)]_vars

\* the state of surface v as the commands can change it
SurfaceState(v) ==
    <<wstate[v], maximized[v], minimized[v], resizeListener[v], closedListener[v],
      updateWinStatus[v], winReply[v]>>

\* C13: a close-window, minimize-window or maximize-window command changes
\* the state of no surface but the one that sent it, whatever its payload
\* names, and changes nothing at all when its sender's window is destroyed.
C13_CommandActsOnSenderOnly ==
    [][\A w \in Windows, payload \in Payloads :
          (\/ handleCloseWindow(w, payload)
           \/ handleMinimizeWindow(w, payload)
           \/ handleIsMaximzeWindow(w, payload)) =>
              /\ \A v \in Windows \ {w} : SurfaceState(v)' = SurfaceState(v)
              /\ isDestroyed(w) => \A v \in Windows : SurfaceState(v)' = SurfaceState(v)]_vars

\* the main surface has been maximized and then minimized by its own commands
\* while the live setting surface is neither
C13_Witness ==
    /\ cHist.op = "minimize-window" /\ cHist.who = "main"
    /\ maximized["main"] /\ minimized["main"]
    /\ wstate["setting"] = "live"
    /\ ~maximized["setting"] /\ ~minimized["setting"]

\* C14 (as claimed): a surface's state changes only by created -> live,
\* live -> closing and closing -> destroyed (after its creation).
C14_LifecycleOrder ==
    [][\A w \in Windows :
          wstate'[w] # wstate[w] =>
              <<wstate[w], wstate'[w]>> \in
                  {<<"none", "created">>, <<"created", "live">>,
                   <<"live", "closing">>, <<"closing", "destroyed">>}]_vars

\* C14 (amended): a surface's state only moves forward along created -> live
\* -> closing -> destroyed, a surface closed before its content has loaded
\* going from created straight to closing; a surface enters closing only by an
\* OS close signal, a close-window command of its own or close(handle); when
\* it becomes destroyed its resize and closed listeners are released; and no
\* operation or event changes the state of a destroyed surface.
C14_LifecycleForwardOnly ==
    [][\A w \in Windows :
          /\ wstate'[w] # wstate[w] =>
                <<wstate[w], wstate'[w]>> \in
                    {<<"none", "created">>, <<"created", "live">>,
                     <<"created", "closing">>, <<"live", "closing">>,
                     <<"closing", "destroyed">>}
          /\ (wstate'[w] = "closing" /\ wstate[w] # "closing") =>
                \/ osClose(w)
                \/ closeHandle(w)
                \/ \E payload \in Payloads : handleCloseWindow(w, payload)
          /\ (wstate'[w] = "destroyed" /\ wstate[w] # "destroyed") =>
                (closed(w) /\ ~resizeListener'[w] /\ ~closedListener'[w])
          /\ isDestroyed(w) => (wstate'[w] = "destroyed" /\ ~resizeListener'[w])]_vars

\* a surface that sent close-window has been destroyed and its listeners
\* released, and a later close(handle) on it has left it destroyed
C14_Witness ==
    \E w \in Windows :
        /\ isDestroyed(w) /\ wHist[w].sentClose
        /\ ~resizeListener[w] /\ ~closedListener[w]
        /\ cHist.op = "close" /\ cHist.who = w /\ cHist.pre = "destroyed"

----------------------------------------------------------------------------
(* Properties of throttle *)

\* C11 (as claimed): under every sequence of calls and cancel() operations and
\* every leading/trailing configuration, any two executions of fn are at least
\* `wait` apart.
C11_AtMostOncePerWait ==
    ~thHist.tooClose

\* C11 (amended): two consecutive executions of fn with no cancel() between
\* them are at least `wait` apart, and with leading = false any two are; with
\* leading = true a call that follows a cancel() runs fn at once, however
\* recently fn last ran.
C11_AtMostOncePerWaitUnlessCancelled ==
    /\ ~thHist.tooCloseNoCancel
    /\ ~thLeading => ~thHist.tooClose
    /\ (thLeading /\ thHist.lastOp = "call" /\ thHist.pre.lastExec = 0)
          => (thHist.lastExecSync /\ thHist.lastExecT = DateNow)

\* a leading and a trailing execution exactly `wait` apart, and a leading
\* execution right after a cancel(), less than `wait` after the one before
C11_Witness ==
    /\ thLeading /\ thTrailing
    /\ thHist.execs = 3 /\ thHist.timerExecs = 1
    /\ thHist.cancels = 1
    /\ thHist.tooClose /\ thHist.lastGap < Wait

\* C27: leading and trailing act independently.  With leading = false a call
\* on a fresh or just-cancelled function does not run fn synchronously; with
\* trailing = false fn never runs from a timer, and none is armed; with both
\* true a call inside the window leaves exactly one timer armed, due at the
\* window's end and carrying `this` and the argument of the call that armed
\* it, and when it fires fn runs then, with those.
C27_LeadingAndTrailingIndependent ==
    /\ (~thLeading /\ thHist.lastOp = "call" /\ thHist.pre = throttle) => ~thHist.ran
    /\ ~thTrailing => (thHist.timerExecs = 0 /\ thInst.timers = {})
    /\ (thLeading /\ thTrailing /\ thHist.lastOp = "call" /\ ~thHist.ran) =>
          /\ Cardinality(thInst.timers) = 1
          /\ \A x \in thInst.timers :
                /\ x.id = thInst.timeoutId
                /\ x.deadline = thHist.pre.lastExec + Wait
                /\ thHist.pre.timers = {} =>
                      (x.ctx = thHist.call.ctx /\ x.args = thHist.call.args)
          /\ thHist.pre.timers # {} => thInst.timers = thHist.pre.timers
    /\ (thLeading /\ thTrailing /\ thHist.lastOp = "fire") =>
          /\ thHist.ran /\ ~thHist.lastExecSync
          /\ Cardinality(thHist.pre.timers) = 1
          /\ \A x \in thHist.pre.timers :
                /\ thHist.lastExecT = x.deadline
                /\ thHist.with = [ctx |-> x.ctx, args |-> x.args]

\* with both options on, a timer armed by a call with ctxA and x has run fn
\* with them although a later call inside the window came with ctxB and y
C27_Witness ==
    /\ thLeading /\ thTrailing
    /\ thHist.lastOp = "fire" /\ thHist.calls = 3
    /\ thHist.with = [ctx |-> "ctxA", args |-> "x"]
    /\ thHist.call = [ctx |-> "ctxB", args |-> "y"]

\* C28: cancel() leaves the closure as throttle() returned it, with no timer
\* armed and the timing state reset: the trailing execution that was pending
\* does not fire, nothing fires until the next call, and that call is handled
\* as the first call of a fresh throttled function.
C28_CancelResets ==
    [][/\ thHist'.lastOp = "cancel" => thInst' = throttle
       /\ (thInst = throttle /\ thHist'.lastOp = "tick") => thInst' = throttle
       /\ thInst = throttle => thHist'.lastOp # "fire"
       /\ (thHist.cancels > 0 /\ thInst = throttle /\ thHist'.lastOp = "call") =>
             /\ thInst' = throttled(throttle, thLeading, thTrailing, Wait, DateNow,
                                    thHist'.call.ctx, thHist'.call.args)
             /\ thHist'.ran = throttledRunsFn(throttle, thLeading, Wait, DateNow)
      ]_vars

\* cancel() was called at the moment a pending trailing execution was due:
\* the timer is gone and the closure is as throttle() returned it
C28_Witness ==
    /\ thHist.lastOp = "cancel" /\ thInst = throttle
    /\ thHist.pre.lastExec # 0
    /\ \E x \in thHist.pre.timers : x.deadline <= DateNow

----------------------------------------------------------------------------
(* Properties of the log service *)

\* the entries of the last sweep's listing that the sweep is to delete: the
\* regular files named *.log and created before its cutoff
ExpiredLogFiles ==
    {f \in lHist.sw.listing :
        endsWithLog(f.name) /\ f.isFile /\ f.birth < lHist.sw.expiration}

\* ... and those of them that are day files
ExpiredDayFiles ==
    {f \in lHist.sw.listing :
        IsDayFileName(f.name) /\ f.isFile /\ f.birth < lHist.sw.expiration}

\* the last sweep has listed the directory and returned, no stat or unlink of
\* it failed and nobody removed the directory meanwhile
SweptUndisturbed ==
    /\ lHist.sw.done /\ lHist.sw.listed
    /\ lHist.sw.failed = {} /\ ~lHist.sw.dirRemoved

NamedDotLog(name) == name.ext = ".log"

\* C25 (as claimed): a sweep deletes no file whose name does not match the
\* day-file pattern log-YYYY-MM-DD.<ext>, whatever its age.
C25_OnlyDayFilesDeleted ==
    \A name \in lHist.sw.deleted : IsDayFileName(name)

\* C25 (amended): a sweep looks only at the entries whose name ends in .log,
\* day file or not: what it stats or unlinks has such a name, and an entry
\* with any other name is never deleted by it, whatever its age.
C25_OnlyLogNamesDeleted ==
    /\ \A name \in lHist.sw.deleted : NamedDotLog(name)
    /\ sweep.pc \in {"stat", "unlink"} => NamedDotLog(sweep.cur)
    /\ \A f \in lHist.sw.listing :
          (~NamedDotLog(f.name) /\ ~lHist.sw.dirRemoved) => f \in logDir.files

\* a sweep has returned: it deleted debug.log, 9 days old, and kept notes.txt,
\* 11 days old
C25_Witness ==
    /\ lHist.sw.done /\ lHist.sw.listed /\ ~lHist.sw.dirRemoved
    /\ [stem |-> "debug", date |-> "", ext |-> ".log"] \in lHist.sw.deleted
    /\ \E f \in logDir.files :
          /\ f.name = [stem |-> "notes", date |-> "", ext |-> ".txt"]
          /\ f.birth < lHist.sw.expiration

\* C26: when the creation of the log directory fails at startup, the
\* constructor does not throw: the failure is reported, the constructor
\* returns, the startup sweep has been started and the daily sweep is scheduled.
C26_MkdirFailureIsNotFatal ==
    (lHist.ctor.pc # "starting" /\ lHist.ctor.mkdirFailed) =>
        /\ lHist.ctor.pc = "done"
        /\ lHist.ctor.reported
        /\ lHist.sw.sweeps >= 1
        /\ lHist.ctor.timer

\* the directory could not be created, not by the file transport either: the
\* startup sweep found no directory, and the timer has started the next sweep
C26_Witness ==
    /\ lHist.ctor.pc = "done" /\ lHist.ctor.mkdirFailed /\ lHist.ctor.reported
    /\ lHist.sw.sweeps = 2 /\ lHist.sw.startedAbsent

DayFileName(day) == [stem |-> "log-", date |-> formattedDate(day), ext |-> ".log"]

\* the calendar day a day-file name stands for
DayOf(name) ==
    CHOOSE d \in (0 - (LOG_RETENTION_DAYS + 5))..MaxRollovers :
        formattedDate(d) = name.date

\* the files that hold more lines after a step than before it
Written == {n \in DOMAIN logDir'.lines : Lines(logDir', n) > Lines(logDir, n)}

----------------------------------------------------------------------------
(* Properties of the title bar *)

\* surface w is open, its title bar has finished mounting, every maximize()
\* and unmaximize() has had its 'resize' event, the notifier of the window has
\* no timer pending, and every notification sent has reached the renderer
WinManagerSettled(w) ==
    /\ wstate[w] = "live"
    /\ useWinManager[w].pc = "listening"
    /\ ~wHist[w].resizeOwed
    /\ updateWinStatus[w].timers = {}
    /\ notificationsInFlight(w) = 0

\* C31 (as claimed): once the maximize toggles and resize events of a surface
\* have settled and all messages have been delivered, the isMaximized value of
\* its title bar equals the maximized state of the host window.
C31_IsMaximizedFollowsWindow ==
    \A w \in Windows :
        WinManagerSettled(w) => useWinManager[w].isMaximized = maximized[w]

====
